---- MODULE Spec2Model ----
(***************************************************************************)
(* The scheme execution engine: the TypeScript runScheme of                *)
(* src/src/types/index.ts and the JavaScript runScheme of                  *)
(* src/runtime/schemes/runScheme.js, with the helpers they call.           *)
(*                                                                         *)
(* Decimal values (decimal.js) are exact: a value is mantissa * 10^-scale, *)
(* kept normalised.  Dates are the rank of an ISO date string in Calendar. *)
(* A row is a function from column names to strings; a column a row lacks  *)
(* is a property that is undefined.                                        *)
(***************************************************************************)
EXTENDS Integers, Sequences, FiniteSets, TLC

VARIABLES
  tierCall,   \* calls of the tiered payout functions: tiers and results
  mgrCall,    \* a call of findManager: arguments and result
  condCall,   \* a call of evaluateCondition: arguments and outcome
  call,       \* the arguments of runScheme: implementation, uploadedFiles, runAsOfDate
  scheme,     \* the scheme object, which runs share
  pc,         \* where the current run of runScheme stands
  runNo,      \* the number of the current run
  locals,     \* the locals of the current run
  result,     \* agentPayouts, ruleHitLogs, creditDistributions, rawRecordLevelData
  error,      \* the message of the error the current run threw, or "none"
  firstRun,   \* what the run before the current one returned or threw
  page        \* the state of the SchemeExecution page and of its handleExecute

runVars == <<call, scheme, pc, runNo, locals, result, error, firstRun>>

vars == <<tierCall, mgrCall, condCall, call, scheme, pc, runNo, locals, result, error,
         firstRun, page>>

----------------------------------------------------------------------------
(* Bounds of the model *)

MaxTiers == 2          \* longest payoutTiers list drawn
MaxAmountSteps == 5    \* amounts drawn for the payout functions: 500 * (-1 .. MaxAmountSteps)
MaxHierarchy == 2      \* longest hierarchy file drawn
MaxRows == 2           \* longest base file drawn for the schemes without rules
MaxRuns == 2           \* runs of runScheme on the same scheme object

----------------------------------------------------------------------------
(* decimal.js: exact decimal arithmetic *)

RECURSIVE Pow10(_)
Pow10(n) == IF n = 0 THEN 1 ELSE 10 * Pow10(n - 1)

RECURSIVE Norm(_)
Norm(d) ==
  IF d.m = 0 THEN [m |-> 0, s |-> 0]
  ELSE IF d.s > 0 /\ d.m % 10 = 0 THEN Norm([m |-> d.m \div 10, s |-> d.s - 1])
  ELSE d

Decimal(n) == [m |-> n, s |-> 0]

DecimalInfinity == [m |-> 1, s |-> 0 - 1]

IsInfinity(d) == d.s < 0

Scaled(d, s) == d.m * Pow10(s - d.s)

MaxScale(a, b) == IF a.s >= b.s THEN a.s ELSE b.s

plus(a, b) ==
  LET s == MaxScale(a, b) IN Norm([m |-> Scaled(a, s) + Scaled(b, s), s |-> s])

minus(a, b) ==
  LET s == MaxScale(a, b) IN Norm([m |-> Scaled(a, s) - Scaled(b, s), s |-> s])

times(a, b) == Norm([m |-> a.m * b.m, s |-> a.s + b.s])

dividedBy100(a) == Norm([m |-> a.m, s |-> a.s + 2])

lte(a, b) ==
  IF IsInfinity(b) THEN TRUE
  ELSE IF IsInfinity(a) THEN FALSE
  ELSE LET s == MaxScale(a, b) IN Scaled(a, s) <= Scaled(b, s)

gt(a, b) == ~lte(a, b)

lt(a, b) == ~lte(b, a)

gte(a, b) == lte(b, a)

isZero(a) == a.m = 0 /\ ~IsInfinity(a)

DecimalMin(a, b) == IF lte(a, b) THEN a ELSE b

DecimalMax(a, b) == IF lte(a, b) THEN b ELSE a

----------------------------------------------------------------------------
(* JavaScript values: undefined, null, String(), truthiness, letter case *)

Undefined == "<undefined>"

Null == "<null>"

String(v) ==
  IF v = Undefined THEN "undefined" ELSE IF v = Null THEN "null" ELSE v

Falsy(v) == v \in {Undefined, Null, ""}

LowerCaseOf ==
  [A |-> "a", B |-> "b", M |-> "m", N |-> "n", P |-> "p", L2 |-> "l2", L3 |-> "l3",
   X |-> "x", Y |-> "y"]

toLowerCase(str) == IF str \in DOMAIN LowerCaseOf THEN LowerCaseOf[str] ELSE str

toUpperCase(str) ==
  IF \E u \in DOMAIN LowerCaseOf : LowerCaseOf[u] = str
  THEN CHOOSE u \in DOMAIN LowerCaseOf : LowerCaseOf[u] = str
  ELSE str

\* index.ts safeGet for a one-segment path: the property, or the default
safeGet(obj, path, defaultValue) ==
  IF path \in DOMAIN obj THEN obj[path] ELSE defaultValue

----------------------------------------------------------------------------
(* Dates: the ISO date strings of the model, in calendar order.  A parsed   *)
(* Date is the rank of its string; NoDate is null.                         *)

Calendar ==
  << "2023-12-31", "2024-01-01", "2024-06-15", "2024-12-31", "2025-01-01", "2025-06-01" >>

NoDate == 0

\* index.ts parseDate: new Date(dateString + 'T00:00:00Z'), null when invalid
parseDate(dateString) ==
  IF \E i \in 1..Len(Calendar) : Calendar[i] = dateString
  THEN CHOOSE i \in 1..Len(Calendar) : Calendar[i] = dateString
  ELSE NoDate

\* a comparison that leaves the day itself out
compareDatesLt(date1, date2) ==
  date1 # NoDate /\ date2 # NoDate /\ date1 < date2

\* index.ts compareDates(d1, d2) <= 0; a null date gives NaN, and NaN <= 0 is false
compareDatesLte(date1, date2) ==
  date1 # NoDate /\ date2 # NoDate /\ date1 <= date2

\* index.ts compareDates(d1, d2) >= 0
compareDatesGte(date1, date2) ==
  date1 # NoDate /\ date2 # NoDate /\ date1 >= date2

----------------------------------------------------------------------------
(* Numbers in strings: new Decimal(str) and Decimal.toFixed *)

\* the numeric strings of the model; new Decimal of any other string throws
DecimalLiterals ==
  { <<ToString(n), Decimal(n)>> : n \in {0 - 500, 0, 2, 333, 1000, 1500, 2000, 3000} }
    \cup { <<"0.5", [m |-> 5, s |-> 1]>> }

Numeric(str) == \E p \in DecimalLiterals : p[1] = str

\* new Decimal(str) for a numeric string
NewDecimal(str) == (CHOOSE p \in DecimalLiterals : p[1] = str)[2]

\* value || 0
OrZero(v) == IF Falsy(v) THEN "0" ELSE v

RECURSIVE Digits(_, _)
Digits(n, width) ==
  IF width = 0 THEN "" ELSE Digits(n \div 10, width - 1) \o ToString(n % 10)

\* Decimal.toFixed(dp): rounds half away from zero; the sign is that of the value
\* before rounding
toFixed(d, dp) ==
  LET abs == IF d.m < 0 THEN 0 - d.m ELSE d.m
      units == IF d.s <= dp THEN abs * Pow10(dp - d.s)
               ELSE LET unit == Pow10(d.s - dp)
                    IN (abs \div unit) + (IF 2 * (abs % unit) >= unit THEN 1 ELSE 0)
  IN (IF d.m < 0 THEN "-" ELSE "")
       \o ToString(units \div Pow10(dp))
       \o (IF dp > 0 THEN "." \o Digits(units % Pow10(dp), dp) ELSE "")

\* index.ts formatDecimal(decimalValue, precision)
formatDecimal(decimalValue, precision) == toFixed(decimalValue, precision)

\* Decimal.toString of a normalised value
DecimalToString(d) == toFixed(d, d.s)

\* the six comparisons of decimal.js behind the operators of a Number rule
CompareDecimals(operator, rv, val) ==
  CASE operator = "=" -> rv = val
    [] operator = "!=" -> rv # val
    [] operator = ">" -> gt(rv, val)
    [] operator = ">=" -> gte(rv, val)
    [] operator = "<" -> lt(rv, val)
    [] operator = "<=" -> lte(rv, val)
    [] OTHER -> FALSE

----------------------------------------------------------------------------
(* Strings: trim, substrings and order, on the strings of the model *)

TrimOf == (" X " :> "X") @@ (" Y " :> "Y")

trim(str) == IF str \in DOMAIN TrimOf THEN TrimOf[str] ELSE str

\* the proper, non-empty prefixes, suffixes and inner parts of the longer strings
PartsOf ==
  ("xy" :> [prefixes |-> {"x"}, suffixes |-> {"y"}, inner |-> {"x", "y"}])
    @@ ("x,y" :> [prefixes |-> {"x"}, suffixes |-> {"y"}, inner |-> {"x", "y"}])

startsWith(str, part) ==
  part = "" \/ part = str \/ (str \in DOMAIN PartsOf /\ part \in PartsOf[str].prefixes)

endsWith(str, part) ==
  part = "" \/ part = str \/ (str \in DOMAIN PartsOf /\ part \in PartsOf[str].suffixes)

includes(str, part) ==
  part = "" \/ part = str \/ (str \in DOMAIN PartsOf /\ part \in PartsOf[str].inner)

\* the strings of the model in the order of the < of JavaScript strings
StringOrder ==
  << "", " X ", " Y ", "0", "0.5", "1000", "1500", "2", "2000", "3000", "333",
     "A", "B", "M", "N", "P", "X", "Y", "a", "b", "false", "true", "x", "xy", "y" >>

StringRank(str) ==
  IF \E i \in 1..Len(StringOrder) : StringOrder[i] = str
  THEN CHOOSE i \in 1..Len(StringOrder) : StringOrder[i] = str
  ELSE 0

----------------------------------------------------------------------------
(* index.ts evaluateCondition *)

\* the test for null alone
IsNullOnly(v) == v = Null

IsNullish(v) == v \in {Null, Undefined}

\* new Decimal(recordValue || 0) or new Decimal(ruleValue || 0) throws
evaluateConditionThrows(recordValue, operator, ruleValue, dataType) ==
  /\ ~IsNullish(recordValue)
  /\ dataType = "Number"
  /\ (~Numeric(OrZero(recordValue)) \/ ~Numeric(OrZero(ruleValue)))

evaluateDateCondition(operator, rv, val) ==
  IF rv = NoDate \/ val = NoDate THEN FALSE
  ELSE CASE operator = "=" -> rv = val
         [] operator = "!=" -> rv # val
         [] operator = ">" -> rv > val
         [] operator = ">=" -> rv >= val
         [] operator = "<" -> rv < val
         [] operator = "<=" -> rv <= val
         [] OTHER -> FALSE

evaluateStringCondition(operator, rvLower, valLower) ==
  CASE operator = "=" -> rvLower = valLower
    [] operator = "!=" -> rvLower # valLower
    [] operator = "CONTAINS" -> includes(rvLower, valLower)
    [] operator = "STARTSWITH" -> startsWith(rvLower, valLower)
    [] operator = "ENDSWITH" -> endsWith(rvLower, valLower)
    [] OTHER -> FALSE

\* evaluateCondition(recordValue, operator, ruleValue, dataType) when it returns
evaluateCondition(recordValue, operator, ruleValue, dataType) ==
  IF IsNullish(recordValue)
  THEN operator = "=" /\ (IsNullish(ruleValue) \/ ruleValue = "")
  ELSE CASE dataType = "Number" ->
              CompareDecimals(operator, NewDecimal(OrZero(recordValue)),
                              NewDecimal(OrZero(ruleValue)))
         [] dataType = "Date" ->
              evaluateDateCondition(operator, parseDate(recordValue), parseDate(ruleValue))
         [] OTHER ->
              evaluateStringCondition(operator, toLowerCase(trim(String(recordValue))),
                                      toLowerCase(trim(String(ruleValue))))

\* evaluateCondition when the record value is a Decimal (the agent's total)
evaluateConditionOnDecimalThrows(operator, ruleValue, dataType) ==
  dataType = "Number" /\ ~Numeric(OrZero(ruleValue))

evaluateConditionOnDecimal(total, operator, ruleValue, dataType) ==
  CASE dataType = "Number" ->
         CompareDecimals(operator, total, NewDecimal(OrZero(ruleValue)))
    [] dataType = "Date" -> FALSE
    [] OTHER ->
         evaluateStringCondition(operator, toLowerCase(trim(DecimalToString(total))),
                                 toLowerCase(trim(String(ruleValue))))

----------------------------------------------------------------------------
(* runScheme.js evaluateRule *)

evaluateStringRule(operator, rv, v) ==
  CASE operator = "=" -> rv = v
    [] operator = ">=" -> StringRank(rv) >= StringRank(v)
    [] operator = "<=" -> StringRank(rv) <= StringRank(v)
    [] operator = ">" -> StringRank(rv) > StringRank(v)
    [] operator = "<" -> StringRank(rv) < StringRank(v)
    [] operator = "CONTAINS" -> includes(rv, v)
    [] operator = "!=" -> rv # v
    [] OTHER -> FALSE

\* the comparisons of evaluateRule on two Decimals; CONTAINS is on their strings
evaluateNumberRule(operator, rv, v) ==
  IF operator = "CONTAINS" THEN includes(DecimalToString(rv), DecimalToString(v))
  ELSE CompareDecimals(operator, rv, v)

\* evaluateRule(recordValue, operator, ruleValue, dataType) on a string of a row;
\* a Date rule wants Date objects and a row holds strings
evaluateRule(recordValue, operator, ruleValue, dataType) ==
  CASE dataType = "Number" ->
         IF Numeric(recordValue) /\ Numeric(ruleValue)
         THEN evaluateNumberRule(operator, NewDecimal(recordValue), NewDecimal(ruleValue))
         ELSE FALSE
    [] dataType = "Date" -> FALSE
    [] OTHER -> evaluateStringRule(operator, String(recordValue), String(ruleValue))

\* evaluateRule when the value is the Decimal aggregated over an agent's records
evaluateRuleOnDecimal(value, operator, ruleValue, dataType) ==
  CASE dataType = "Number" ->
         IF Numeric(ruleValue)
         THEN evaluateNumberRule(operator, value, NewDecimal(ruleValue))
         ELSE FALSE
    [] dataType = "Date" -> FALSE
    [] OTHER -> evaluateStringRule(operator, DecimalToString(value), String(ruleValue))

----------------------------------------------------------------------------
(* The hierarchy file.  A row carries the columns index.ts reads (AgentID,  *)
(* Level, ManagerID, ReportsFrom, ReportsToEnd) and those runScheme.js      *)
(* reads (Sales Employee, Reports To Person, Reports From, Reports To).     *)

HierarchyRow(agent, level, manager, from, to) ==
  [ c \in {"AgentID", "Level", "ManagerID", "ReportsFrom", "ReportsToEnd",
           "Sales Employee", "Reports To Person", "Reports From", "Reports To"} |->
      CASE c \in {"AgentID", "Sales Employee"} -> agent
        [] c = "Level" -> level
        [] c \in {"ManagerID", "Reports To Person"} -> manager
        [] c \in {"ReportsFrom", "Reports From"} -> from
        [] OTHER -> to ]

\* the window test of index.ts findManager with the run date as both ends
WindowHoldsOnRunDate(reportsFrom, reportsToEnd, schemeEffectiveFrom, runAsDate) ==
  /\ reportsFrom # NoDate
  /\ reportsToEnd # NoDate
  /\ compareDatesLte(reportsFrom, runAsDate)
  /\ compareDatesGte(reportsToEnd, runAsDate)

\* index.ts findManager: the overlap of [reportsFrom, reportsToEnd] with
\* [schemeEffectiveFrom, runAsDate]
WindowOverlaps(reportsFrom, reportsToEnd, schemeEffectiveFrom, runAsDate) ==
  /\ reportsFrom # NoDate
  /\ reportsToEnd # NoDate
  /\ compareDatesLte(reportsFrom, runAsDate)
  /\ compareDatesGte(reportsToEnd, schemeEffectiveFrom)

\* index.ts findManager: the test of one row
ManagerRowMatches(row, agentId, level, schemeEffectiveFrom, runAsDate) ==
  /\ toLowerCase(String(safeGet(row, "AgentID", Undefined))) = toLowerCase(String(agentId))
  /\ toUpperCase(String(safeGet(row, "Level", Undefined))) = toUpperCase(level)
  /\ WindowOverlaps(parseDate(safeGet(row, "ReportsFrom", Undefined)),
                    parseDate(safeGet(row, "ReportsToEnd", Undefined)),
                    schemeEffectiveFrom, runAsDate)

\* index.ts findManager(agentId, level, hierarchyData, schemeEffectiveFrom, runAsDate)
findManager(agentId, level, hierarchyData, schemeEffectiveFrom, runAsDate) ==
  IF Falsy(agentId) \/ Falsy(level) \/ schemeEffectiveFrom = NoDate \/ runAsDate = NoDate
  THEN Null
  ELSE LET hits == { i \in 1..Len(hierarchyData) :
                       ManagerRowMatches(hierarchyData[i], agentId, level,
                                         schemeEffectiveFrom, runAsDate) }
       IN IF hits = {} THEN Null
          ELSE safeGet(hierarchyData[CHOOSE i \in hits : \A j \in hits : i <= j],
                       "ManagerID", Null)

----------------------------------------------------------------------------
(* Payout tiers.  A tier is [id, from, rate, isPercentage] with an optional *)
(* field "to": a tier without it is unbounded (to: null).                  *)

HasTo(tier) == "to" \in DOMAIN tier

\* [...tiers].sort((a, b) => a.from - b.from): a stable sort by from
RECURSIVE InsertByFrom(_, _)
InsertByFrom(sorted, tier) ==
  IF sorted = <<>> THEN <<tier>>
  ELSE IF sorted[Len(sorted)].from <= tier.from THEN Append(sorted, tier)
  ELSE Append(InsertByFrom(SubSeq(sorted, 1, Len(sorted) - 1), tier), sorted[Len(sorted)])

RECURSIVE SortTiers(_)
SortTiers(tiers) ==
  IF tiers = <<>> THEN <<>>
  ELSE InsertByFrom(SortTiers(SubSeq(tiers, 1, Len(tiers) - 1)), tiers[Len(tiers)])

TierTo(tier) == IF HasTo(tier) THEN Decimal(tier.to) ELSE DecimalInfinity

\* the slice taken from zero instead of from the tier's start
effectiveAmountFromZero(amount, tier) == DecimalMin(amount, TierTo(tier))

\* index.ts: effectiveAmountInTier = Decimal.min(amount, tierRangeEnd).minus(tierRangeStart)
effectiveAmountInTier(amount, tier) ==
  minus(DecimalMin(amount, TierTo(tier)), Decimal(tier.from))

\* the portion times the rate, a percentage taken as a factor
tierPayoutUndivided(effective, tier) == times(effective, Decimal(tier.rate))

\* index.ts: the payout for the portion in one tier
tierPayout(effective, tier) ==
  IF tier.isPercentage
  THEN dividedBy100(times(effective, Decimal(tier.rate)))
  ELSE times(effective, Decimal(tier.rate))

\* the tier's payout assigned instead of added
AccumulateOnlyLast(totalPayout, payout) == payout

\* index.ts: totalPayout = totalPayout.plus(tierPayout)
Accumulate(totalPayout, payout) == plus(totalPayout, payout)

\* index.ts: the for loop of calculateMarginalTieredPayout over sortedTiers
RECURSIVE MarginalLoop(_, _, _, _)
MarginalLoop(amount, sortedTiers, i, totalPayout) ==
  IF i > Len(sortedTiers) THEN totalPayout
  ELSE LET tier == sortedTiers[i]
           effective == effectiveAmountInTier(amount, tier)
       IN IF lte(amount, Decimal(tier.from)) THEN totalPayout                \* break
          ELSE IF lte(effective, Decimal(0))
               THEN MarginalLoop(amount, sortedTiers, i + 1, totalPayout)    \* continue
          ELSE LET total == Accumulate(totalPayout, tierPayout(effective, tier))
               IN IF lte(amount, TierTo(tier)) THEN total                    \* break
                  ELSE MarginalLoop(amount, sortedTiers, i + 1, total)

calculateMarginalTieredPayout(amount, tiers) ==
  IF Len(tiers) = 0 THEN Decimal(0)
  ELSE MarginalLoop(amount, SortTiers(tiers), 1, Decimal(0))

\* runScheme.js: amountInTier = Decimal.max(0, Decimal.min(amount, tierRangeEnd).minus(tierRangeStart))
amountInTier(amount, tier) ==
  DecimalMax(Decimal(0), minus(DecimalMin(amount, TierTo(tier)), Decimal(tier.from)))

\* runScheme.js: the for loop of calculateTieredPayout over sortedTiers
RECURSIVE TieredLoop(_, _, _, _)
TieredLoop(amount, sortedTiers, i, totalPayout) ==
  IF i > Len(sortedTiers) THEN totalPayout
  ELSE LET tier == sortedTiers[i]
           inTier == amountInTier(amount, tier)
       IN IF isZero(inTier) /\ gt(amount, TierTo(tier))
          THEN TieredLoop(amount, sortedTiers, i + 1, totalPayout)           \* continue
          ELSE IF isZero(inTier) /\ lte(amount, Decimal(tier.from))
               THEN totalPayout                                              \* break
          ELSE LET total == plus(totalPayout, tierPayout(inTier, tier))
               IN IF lte(amount, TierTo(tier)) THEN total                    \* break
                  ELSE TieredLoop(amount, sortedTiers, i + 1, total)

calculateTieredPayout(amount, tiers) ==
  TieredLoop(amount, SortTiers(tiers), 1, Decimal(0))

----------------------------------------------------------------------------
(* The tiers and amounts drawn *)

TierRanges ==
  { [from |-> 0, to |-> 1000], [from |-> 1000, to |-> 2000],
    [from |-> 1000], [from |-> 2000], [from |-> 500] }

TierRates ==
  { [rate |-> 5, isPercentage |-> TRUE], [rate |-> 10, isPercentage |-> TRUE],
    [rate |-> 2, isPercentage |-> FALSE], [rate |-> 0 - 5, isPercentage |-> TRUE] }

MakeTier(range, r) ==
  IF "to" \in DOMAIN range
  THEN [id |-> "T", from |-> range.from, to |-> range.to,
        rate |-> r.rate, isPercentage |-> r.isPercentage]
  ELSE [id |-> "T", from |-> range.from,
        rate |-> r.rate, isPercentage |-> r.isPercentage]

Tiers == { MakeTier(range, r) : range \in TierRanges, r \in TierRates }

SeqsUpTo(S, n) == UNION { [1..k -> S] : k \in 0..n }

TierLists == SeqsUpTo(Tiers, MaxTiers)

TierAmounts == { Decimal(500 * k) : k \in (0 - 1)..MaxAmountSteps }

----------------------------------------------------------------------------
(* The payout functions applied: each call keeps the call before it *)

NoCall == [applied |-> FALSE]

ApplyCall(amount, tiers) ==
  [applied |-> TRUE, amount |-> amount,
   ts |-> calculateMarginalTieredPayout(amount, tiers),
   js |-> calculateTieredPayout(amount, tiers)]

TierIdle == [tiers |-> <<>>, n |-> 2, last |-> NoCall, prev |-> NoCall]

MgrIdle == [applied |-> TRUE, idle |-> TRUE]

CondIdle == [applied |-> TRUE, idle |-> TRUE]

\* no run of runScheme
RunIdle ==
  /\ call = [impl |-> "none"]
  /\ scheme = [name |-> "none"]
  /\ pc = "idle"
  /\ runNo = 0
  /\ locals = [idle |-> TRUE]
  /\ result = [idle |-> TRUE]
  /\ error = "none"
  /\ firstRun = [idle |-> TRUE]

\* SchemeExecutionEngine.ts 483-491: the useState initial values of the page
PageIdle ==
  [selectedScheme |-> [name |-> Null], requiredFiles |-> {}, uploadedFiles |-> {},
   missingColumns |-> {}, runAsOfDate |-> "", isExecuting |-> FALSE,
   executionResult |-> [kind |-> Null], pc |-> "idle", outcome |-> [kind |-> Null],
   mode |-> Null, lastCall |-> [made |-> FALSE], calls |-> 0, runs |-> 0]

InitTier ==
  /\ page = PageIdle
  /\ \E tiers \in TierLists :
       tierCall = [tiers |-> tiers, n |-> 0, last |-> NoCall, prev |-> NoCall]
  /\ mgrCall = MgrIdle
  /\ condCall = CondIdle
  /\ RunIdle

ApplyTier ==
  /\ tierCall.n < 2
  /\ \E amount \in TierAmounts :
       tierCall' = [tierCall EXCEPT !.n = @ + 1,
                                    !.prev = tierCall.last,
                                    !.last = ApplyCall(amount, tierCall.tiers)]
  /\ UNCHANGED <<page, mgrCall, condCall, runVars>>

NextTier == ApplyTier

SpecTier == InitTier /\ [][NextTier]_vars

----------------------------------------------------------------------------
(* findManager applied to hierarchy files of up to MaxHierarchy rows *)

HierarchyWindows ==
  { [manager |-> "M", from |-> "2024-01-01", to |-> "2024-12-31"],
    [manager |-> "N", from |-> "2025-01-01", to |-> "2025-06-01"],
    [manager |-> "P", from |-> "2024-01-01", to |-> "open"],
    [manager |-> "Q", from |-> "open", to |-> "2024-12-31"] }

HierarchyRows ==
  { HierarchyRow(agent, level, w.manager, w.from, w.to) :
      agent \in {"A", "a", "B"}, level \in {"L2", "l2", "L3"}, w \in HierarchyWindows }

RunDates == {"2024-06-15", "2024-12-31", "2025-01-01"}

EffectiveDates == {"2024-01-01", "2025-01-01"}

InitMgr ==
  /\ page = PageIdle
  /\ tierCall = TierIdle
  /\ condCall = CondIdle
  /\ RunIdle
  /\ \E hierarchyData \in SeqsUpTo(HierarchyRows, MaxHierarchy),
        run \in RunDates, from \in EffectiveDates :
       /\ parseDate(from) <= parseDate(run)
       /\ mgrCall = [applied |-> FALSE, agentId |-> "A", level |-> "L2",
                     hierarchyData |-> hierarchyData,
                     schemeEffectiveFrom |-> parseDate(from),
                     runAsDate |-> parseDate(run)]

ApplyFindManager ==
  /\ ~mgrCall.applied
  /\ mgrCall' = [applied |-> TRUE, agentId |-> mgrCall.agentId, level |-> mgrCall.level,
                 hierarchyData |-> mgrCall.hierarchyData,
                 schemeEffectiveFrom |-> mgrCall.schemeEffectiveFrom,
                 runAsDate |-> mgrCall.runAsDate,
                 result |-> findManager(mgrCall.agentId, mgrCall.level,
                                        mgrCall.hierarchyData,
                                        mgrCall.schemeEffectiveFrom, mgrCall.runAsDate)]
  /\ UNCHANGED <<page, tierCall, condCall, runVars>>

NextMgr == ApplyFindManager

SpecMgr == InitMgr /\ [][NextMgr]_vars

----------------------------------------------------------------------------
(* evaluateCondition applied to the values a record and a rule can hold *)

\* the data types, and for each the values of a record field and of a rule
CondValues ==
  [Number |-> {"", "0", "0.5", "1000", "1500", "abc"},
   String |-> {"", "X", "x", "xy", "y", " X ", "x,y"},
   Date |-> {"2024-06-15", "2024-12-31", "not-a-date"}]

CondOperators ==
  {"=", "!=", ">", ">=", "<", "<=", "CONTAINS", "NOT CONTAINS", "STARTSWITH", "ENDSWITH",
   "IN", "NOT IN"}

InitCond ==
  /\ page = PageIdle
  /\ tierCall = TierIdle
  /\ mgrCall = MgrIdle
  /\ RunIdle
  /\ \E dataType \in DOMAIN CondValues, operator \in CondOperators :
       \E recordValue \in CondValues[dataType] \cup {Null, Undefined},
          ruleValue \in CondValues[dataType] \cup {Null, Undefined} :
         condCall = [applied |-> FALSE, recordValue |-> recordValue,
                     operator |-> operator, ruleValue |-> ruleValue,
                     dataType |-> dataType]

\* the call returns true or false, or throws
ApplyEvaluateCondition ==
  /\ ~condCall.applied
  /\ condCall' =
       [applied |-> TRUE, recordValue |-> condCall.recordValue,
        operator |-> condCall.operator, ruleValue |-> condCall.ruleValue,
        dataType |-> condCall.dataType,
        outcome |->
          IF evaluateConditionThrows(condCall.recordValue, condCall.operator,
                                     condCall.ruleValue, condCall.dataType)
          THEN "throws"
          ELSE IF evaluateCondition(condCall.recordValue, condCall.operator,
                                    condCall.ruleValue, condCall.dataType)
          THEN "true" ELSE "false"]
  /\ UNCHANGED <<page, tierCall, mgrCall, runVars>>

NextCond == ApplyEvaluateCondition

SpecCond == InitCond /\ [][NextCond]_vars

----------------------------------------------------------------------------
(* Maps from strings (objects used as dictionaries) and objects with        *)
(* optional properties                                                     *)

EmptyMap == [k \in {} |-> 0]

Put(map, key, value) ==
  [k \in DOMAIN map \cup {key} |-> IF k = key THEN value ELSE map[k]]

Has(obj, property) == property \in DOMAIN obj

\* obj.property, undefined when the object has no such property
Get(obj, property) == IF Has(obj, property) THEN obj[property] ELSE Undefined

----------------------------------------------------------------------------
(* index.ts runScheme: validation and field mappings *)

\* !scheme.baseMapping || !sourceFile || !agentField || !amountField || !txnID
baseMappingIncomplete(sch) ==
  \/ ~Has(sch, "baseMapping")
  \/ Falsy(Get(sch.baseMapping, "sourceFile"))
  \/ Falsy(Get(sch.baseMapping, "agentField"))
  \/ Falsy(Get(sch.baseMapping, "amountField"))
  \/ Falsy(Get(sch.baseMapping, "txnID"))

\* !baseData || !Array.isArray(baseData), baseData = uploadedFiles[baseDataFile]?.data
baseDataMissing(files, baseDataFile) ==
  \/ ~Has(files, baseDataFile)
  \/ ~Has(files[baseDataFile], "data")
  \/ ~files[baseDataFile].data.isArray

\* the test of the first row left out: only an empty file is refused
txnColumnMissingEmptyOnly(baseData, txnIdField) == Len(baseData) = 0

\* !baseData[0] || !(txnIdField in baseData[0])
txnColumnMissing(baseData, txnIdField) ==
  Len(baseData) = 0 \/ ~Has(baseData[1], txnIdField)

\* !runDate || !schemeStart
datesInvalid(sch, asOfDate) ==
  parseDate(asOfDate) = NoDate \/ parseDate(Get(sch, "effectiveFrom")) = NoDate

\* the error the validation of index.ts runScheme throws, or "none"
FatalCondition(sch, files, asOfDate) ==
  IF baseMappingIncomplete(sch)
  THEN "Scheme is missing essential baseMapping configuration."
  ELSE IF baseDataMissing(files, sch.baseMapping.sourceFile)
  THEN "Base data file not found in uploadedFiles or data is not an array."
  ELSE IF txnColumnMissing(files[sch.baseMapping.sourceFile].data.items,
                           sch.baseMapping.txnID)
  THEN "Missing column required as txnID in input file."
  ELSE IF datesInvalid(sch, asOfDate)
  THEN "Invalid runAsOfDate or scheme.effectiveFrom date format. Use YYYY-MM-DD."
  ELSE "none"

\* scheme.kpiConfig?.list || []
KpiList(sch, list) ==
  IF Has(sch, "kpiConfig") /\ Has(sch.kpiConfig, list) THEN sch.kpiConfig[list] ELSE <<>>

\* the lists of the catalog merged from creditFields back to baseData
allKpiFieldsCreditFirst(sch) ==
  KpiList(sch, "creditFields") \o KpiList(sch, "exclusionFields")
    \o KpiList(sch, "adjustmentFields") \o KpiList(sch, "qualificationFields")
    \o KpiList(sch, "baseData")

allKpiFields(sch) ==
  KpiList(sch, "baseData") \o KpiList(sch, "qualificationFields")
    \o KpiList(sch, "adjustmentFields") \o KpiList(sch, "exclusionFields")
    \o KpiList(sch, "creditFields")

OrDefault(v, default) == IF Falsy(v) THEN default ELSE v

RECURSIVE FieldMapOf(_, _, _)
FieldMapOf(fields, n, baseDataFile) ==
  IF n = 0 THEN EmptyMap
  ELSE LET f == fields[n]
           before == FieldMapOf(fields, n - 1, baseDataFile)
       IN IF ~Falsy(Get(f, "name")) /\ ~Falsy(Get(f, "sourceField"))
             /\ Get(f, "sourceFile") = baseDataFile
          THEN Put(before, f.name,
                   [sourceField |-> f.sourceField,
                    dataType |-> OrDefault(Get(f, "dataType"), "String"),
                    evaluationLevel |-> OrDefault(Get(f, "evaluationLevel"), "Per Record"),
                    aggregation |-> OrDefault(Get(f, "aggregation"), "NotApplicable")])
          ELSE before

\* the fieldMap of a run, with the base mapping's Agent and Amount fields
BuildFieldMap(sch) ==
  LET fromKpi == FieldMapOf(allKpiFields(sch), Len(allKpiFields(sch)),
                            sch.baseMapping.sourceFile)
      withAgent == IF Has(fromKpi, "Agent") THEN fromKpi
                   ELSE Put(fromKpi, "Agent",
                            [sourceField |-> sch.baseMapping.agentField, dataType |-> "String",
                             evaluationLevel |-> "Per Record", aggregation |-> "NotApplicable"])
  IN IF Has(withAgent, "Amount") THEN withAgent
     ELSE Put(withAgent, "Amount",
              [sourceField |-> sch.baseMapping.amountField, dataType |-> "Number",
               evaluationLevel |-> "Per Record", aggregation |-> "NotApplicable"])

\* a lookup that falls back on the category column
getSourceFieldOrCategory(fieldMap, ruleFieldName) ==
  IF Has(fieldMap, ruleFieldName) THEN fieldMap[ruleFieldName].sourceField ELSE "Cat"

getSourceField(fieldMap, ruleFieldName) ==
  IF Has(fieldMap, ruleFieldName) THEN fieldMap[ruleFieldName].sourceField ELSE Undefined

getDataType(fieldMap, ruleFieldName) ==
  IF Has(fieldMap, ruleFieldName) THEN fieldMap[ruleFieldName].dataType ELSE "String"

getEvaluationLevel(fieldMap, ruleFieldName) ==
  IF Has(fieldMap, ruleFieldName) THEN fieldMap[ruleFieldName].evaluationLevel
  ELSE "Per Record"

getAggregation(fieldMap, ruleFieldName) ==
  IF Has(fieldMap, ruleFieldName) THEN fieldMap[ruleFieldName].aggregation
  ELSE "NotApplicable"

\* scheme.list || []
RuleList(sch, list) == IF Has(sch, list) THEN sch[list] ELSE <<>>

----------------------------------------------------------------------------
(* index.ts runScheme: selecting, filtering and grouping the records.  A   *)
(* record is a row of the base file with its _originalIndex and _recordId. *)

potentiallyRelevantRecords(baseData, baseDataFile) ==
  [i \in 1..Len(baseData) |->
     [row |-> baseData[i], index |-> i - 1,
      recordId |-> baseDataFile \o "-" \o ToString(i - 1)]]

\* the date filter without its lower end: every parseable date up to runDate
InDateRangeUpToRunDate(record, transactionDateField, schemeStart, runDate) ==
  LET recordDateStr == safeGet(record.row, transactionDateField, Undefined) IN
    /\ ~Falsy(recordDateStr)
    /\ parseDate(recordDateStr) # NoDate
    /\ compareDatesLte(parseDate(recordDateStr), runDate)

\* the date filter: the transaction date parses and lies in [schemeStart, runDate]
InDateRange(record, transactionDateField, schemeStart, runDate) ==
  LET recordDateStr == safeGet(record.row, transactionDateField, Undefined) IN
    /\ ~Falsy(recordDateStr)
    /\ parseDate(recordDateStr) # NoDate
    /\ compareDatesGte(parseDate(recordDateStr), schemeStart)
    /\ compareDatesLte(parseDate(recordDateStr), runDate)

dateFilteredRecords(records, transactionDateField, schemeStart, runDate) ==
  LET Keep(record) == InDateRange(record, transactionDateField, schemeStart, runDate)
  IN SelectSeq(records, Keep)

recordLevelQualRules(sch, fieldMap) ==
  LET PerRecord(rule) == getEvaluationLevel(fieldMap, rule.field) = "Per Record"
  IN SelectSeq(RuleList(sch, "qualificationRules"), PerRecord)

\* the rules of the record-level qualification filter on one record, from rule i:
\* "pass", "fail", or "throw" when evaluateCondition throws
RECURSIVE RecordQualification(_, _, _, _)
RecordQualification(record, rules, i, fieldMap) ==
  IF i > Len(rules) THEN "pass"
  ELSE LET rule == rules[i]
           sourceField == getSourceField(fieldMap, rule.field)
           dataType == getDataType(fieldMap, rule.field)
           recordValue == safeGet(record.row, sourceField, Undefined)
       IN IF Falsy(sourceField) THEN RecordQualification(record, rules, i + 1, fieldMap)
          ELSE IF evaluateConditionThrows(recordValue, rule.operator, rule.value, dataType)
          THEN "throw"
          ELSE IF ~evaluateCondition(recordValue, rule.operator, rule.value, dataType)
          THEN "fail"
          ELSE RecordQualification(record, rules, i + 1, fieldMap)

qualifiedRecords(records, rules, fieldMap) ==
  LET Keep(record) == RecordQualification(record, rules, 1, fieldMap) = "pass"
  IN SelectSeq(records, Keep)

qualificationFilterThrows(records, rules, fieldMap) ==
  \E i \in 1..Len(records) : RecordQualification(records[i], rules, 1, fieldMap) = "throw"

\* String(safeGet(record, agentIdField, 'UNKNOWN_AGENT'))
AgentOfRecord(record, agentIdField) ==
  String(safeGet(record.row, agentIdField, "UNKNOWN_AGENT"))

\* the keys of recordsByAgent in the order for...in visits them: the order in
\* which the agents first appear (no agent id of the model is an integer)
RECURSIVE AgentOrder(_, _, _)
AgentOrder(records, n, agentIdField) ==
  IF n = 0 THEN <<>>
  ELSE LET before == AgentOrder(records, n - 1, agentIdField)
           agentId == AgentOfRecord(records[n], agentIdField)
       IN IF \E i \in 1..Len(before) : before[i] = agentId THEN before
          ELSE Append(before, agentId)

recordsByAgent(records, agentId, agentIdField) ==
  LET Mine(record) == AgentOfRecord(record, agentIdField) = agentId
  IN SelectSeq(records, Mine)

----------------------------------------------------------------------------
(* index.ts runScheme: logEvent.  Log entries carry no timestamp here.     *)

\* baseData[key] is an element: the key is the decimal form of an index
HasIndex(baseData, key) == \E i \in 0..(Len(baseData) - 1) : ToString(i) = key

ElementAt(baseData, key) ==
  baseData[(CHOOSE i \in 0..(Len(baseData) - 1) : ToString(i) = key) + 1]

\* eventData.recordId ? baseData[eventData.recordId][txnIdField] : undefined
\* throws a TypeError when baseData[eventData.recordId] is undefined
logEventThrows(eventData, baseData) ==
  ~Falsy(Get(eventData, "recordId")) /\ ~HasIndex(baseData, eventData.recordId)

logEvent(logArray, eventData, baseData, txnIdField) ==
  Append(logArray,
         [e \in DOMAIN eventData \cup {"transactionId"} |->
            IF e = "transactionId"
            THEN IF Falsy(Get(eventData, "recordId")) THEN Undefined
                 ELSE Get(ElementAt(baseData, eventData.recordId), txnIdField)
            ELSE eventData[e]])

----------------------------------------------------------------------------
(* index.ts runScheme, step 4a: exclusion and adjustment of one record     *)

\* the exclusion rules on one record from rule i: the first rule that matches
\* ("hit"), "none", or "throw" when evaluateCondition throws
RECURSIVE ExclusionScan(_, _, _, _)
ExclusionScan(record, rules, i, fieldMap) ==
  IF i > Len(rules) THEN [kind |-> "none", rule |-> 0]
  ELSE LET rule == rules[i]
           sourceField == getSourceField(fieldMap, rule.field)
           dataType == getDataType(fieldMap, rule.field)
           recordValue == safeGet(record.row, sourceField, Undefined)
       IN IF Falsy(sourceField) THEN ExclusionScan(record, rules, i + 1, fieldMap)
          ELSE IF evaluateConditionThrows(recordValue, rule.operator, rule.value, dataType)
          THEN [kind |-> "throw", rule |-> i]
          ELSE IF evaluateCondition(recordValue, rule.operator, rule.value, dataType)
          THEN [kind |-> "hit", rule |-> i]
          ELSE ExclusionScan(record, rules, i + 1, fieldMap)

\* the effect of one matching adjustment rule on currentAmount and rateMultiplier
ApplyAdjustment(adjustment, acc) ==
  LET adjValue == Decimal(adjustment.value) IN
    IF adjustment.target = "Rate" /\ adjustment.type = "percentage"
    THEN [acc EXCEPT !.rateMultiplier = times(@, dividedBy100(adjValue))]
    ELSE IF adjustment.target = "Amount" /\ adjustment.type = "percentage"
    THEN [acc EXCEPT !.currentAmount = plus(@, dividedBy100(times(@, adjValue)))]
    ELSE IF adjustment.target = "Amount" /\ adjustment.type = "fixed"
    THEN [acc EXCEPT !.currentAmount = plus(@, adjValue)]
    ELSE acc

\* the adjustment rules on one record from rule i; acc is [thrown, currentAmount,
\* rateMultiplier, logs, adjustmentApplied]
RECURSIVE AdjustmentLoop(_, _, _, _, _, _, _)
AdjustmentLoop(record, agentId, rules, i, fieldMap, ctx, acc) ==
  IF i > Len(rules) \/ acc.thrown THEN acc
  ELSE LET rule == rules[i]
           conditionField == getSourceField(fieldMap, rule.condition.field)
           conditionDataType == getDataType(fieldMap, rule.condition.field)
           conditionValue == safeGet(record.row, conditionField, Undefined)
           eventData == [ruleType |-> "Adjustment", ruleId |-> rule.id,
                         recordId |-> record.recordId, agentId |-> agentId]
       IN IF Falsy(conditionField)
          THEN AdjustmentLoop(record, agentId, rules, i + 1, fieldMap, ctx, acc)
          ELSE IF evaluateConditionThrows(conditionValue, rule.condition.operator,
                                          rule.condition.value, conditionDataType)
          THEN [acc EXCEPT !.thrown = TRUE]
          ELSE IF ~evaluateCondition(conditionValue, rule.condition.operator,
                                     rule.condition.value, conditionDataType)
          THEN AdjustmentLoop(record, agentId, rules, i + 1, fieldMap, ctx, acc)
          ELSE LET adjusted == [ApplyAdjustment(rule.adjustment, acc)
                                  EXCEPT !.adjustmentApplied = rule.id]
               IN IF logEventThrows(eventData, ctx.baseData)
                  THEN [adjusted EXCEPT !.thrown = TRUE]
                  ELSE AdjustmentLoop(record, agentId, rules, i + 1, fieldMap, ctx,
                         [adjusted EXCEPT !.logs =
                            logEvent(@, eventData, ctx.baseData, ctx.txnIdField)])

\* one record of an agent: [thrown, isExcluded, adjustedAmount, logs, processedRecord];
\* logs are the agent's log entries with this record's appended
processRecord(record, agentId, sch, fieldMap, ctx, agentRuleLogs) ==
  LET amountValue == safeGet(record.row, sch.baseMapping.amountField, "0")
      thrownResult == [thrown |-> TRUE, isExcluded |-> FALSE,
                       adjustedAmount |-> Decimal(0), logs |-> agentRuleLogs]
      \* the record is excluded: the event is logged and the record kept with amount 0
      Excluded(exclusionEvent) ==
        IF logEventThrows(exclusionEvent, ctx.baseData) THEN thrownResult
        ELSE [thrown |-> FALSE, isExcluded |-> TRUE, adjustedAmount |-> Decimal(0),
              logs |-> logEvent(agentRuleLogs, exclusionEvent, ctx.baseData, ctx.txnIdField),
              processedRecord |->
                [recordId |-> record.recordId,
                 originalAmount |-> formatDecimal(NewDecimal(amountValue), 2),
                 rateMultiplier |-> formatDecimal(Decimal(1), 4),
                 adjustedAmount |-> formatDecimal(Decimal(0), 2),
                 isExcluded |-> TRUE,
                 exclusionReason |-> exclusionEvent.ruleId,
                 adjustmentApplied |-> Null]]
      \* the record after the loop over the adjustment rules left acc
      Adjusted(acc) ==
        IF acc.thrown THEN thrownResult
        ELSE [thrown |-> FALSE, isExcluded |-> FALSE,
              adjustedAmount |-> times(acc.currentAmount, acc.rateMultiplier),
              logs |-> acc.logs,
              processedRecord |->
                [recordId |-> record.recordId,
                 originalAmount |-> formatDecimal(NewDecimal(amountValue), 2),
                 rateMultiplier |-> formatDecimal(acc.rateMultiplier, 4),
                 adjustedAmount |->
                   formatDecimal(times(acc.currentAmount, acc.rateMultiplier), 2),
                 isExcluded |-> FALSE,
                 exclusionReason |-> Null,
                 adjustmentApplied |-> acc.adjustmentApplied]]
      \* the record once the exclusion rules gave scan
      Scanned(scan) ==
        IF ~Numeric(amountValue) \/ scan.kind = "throw" THEN thrownResult
        ELSE IF scan.kind = "hit"
        THEN Excluded([ruleType |-> "Exclusion",
                       ruleId |-> RuleList(sch, "exclusionRules")[scan.rule].id,
                       recordId |-> record.recordId, agentId |-> agentId])
        ELSE Adjusted(AdjustmentLoop(record, agentId, RuleList(sch, "adjustmentRules"), 1,
                                     fieldMap, ctx,
                                     [thrown |-> FALSE,
                                      currentAmount |-> NewDecimal(amountValue),
                                      rateMultiplier |-> Decimal(1),
                                      logs |-> agentRuleLogs,
                                      adjustmentApplied |-> Null]))
  IN Scanned(ExclusionScan(record, RuleList(sch, "exclusionRules"), 1, fieldMap))

\* agentRecords.map(...): the records of one agent in order; acc is [thrown,
\* total (agentTotalCreditedAmount), logs, processed]
RECURSIVE processAgentRecords(_, _, _, _, _, _, _)
processAgentRecords(records, i, agentId, sch, fieldMap, ctx, acc) ==
  IF i > Len(records) \/ acc.thrown THEN acc
  ELSE LET Collect(r) ==
             IF r.thrown THEN [acc EXCEPT !.thrown = TRUE]
             ELSE processAgentRecords(records, i + 1, agentId, sch, fieldMap, ctx,
                    [thrown |-> FALSE,
                     total |-> IF r.isExcluded THEN acc.total
                               ELSE plus(acc.total, r.adjustedAmount),
                     logs |-> r.logs,
                     processed |-> Append(acc.processed, r.processedRecord)])
       IN Collect(processRecord(records[i], agentId, sch, fieldMap, ctx, acc.logs))

----------------------------------------------------------------------------
(* index.ts runScheme, steps 4b-4d: qualification, payout and credit       *)
(* splits of one agent                                                     *)

agentLevelQualRules(sch, fieldMap) ==
  LET AgentLevel(rule) ==
        /\ getEvaluationLevel(fieldMap, rule.field) = "Agent"
        /\ getAggregation(fieldMap, rule.field) \in {"Sum", "NotApplicable"}
  IN SelectSeq(RuleList(sch, "qualificationRules"), AgentLevel)

\* the loop over agentLevelQualRules from rule i; acc is [thrown, qualified,
\* evaluated (the ids of the rules handed to evaluateCondition), logs]
RECURSIVE AgentQualificationLoop(_, _, _, _, _, _, _)
AgentQualificationLoop(total, rules, i, agentId, sch, fieldMap, acc) ==
  IF i > Len(rules) THEN acc
  ELSE LET rule == rules[i]
           dataType == getDataType(fieldMap, rule.field)
       IN IF rule.field = "MinSales"
             /\ getSourceField(fieldMap, rule.field) = sch.baseMapping.amountField
          THEN IF evaluateConditionOnDecimalThrows(rule.operator, rule.value, dataType)
               THEN [acc EXCEPT !.thrown = TRUE, !.evaluated = Append(@, rule.id)]
               ELSE IF ~evaluateConditionOnDecimal(total, rule.operator, rule.value, dataType)
               THEN [acc EXCEPT !.qualified = FALSE,
                                !.evaluated = Append(@, rule.id),
                                !.logs = Append(@, [ruleType |-> "Qualification",
                                                    ruleId |-> rule.id,
                                                    agentId |-> agentId,
                                                    transactionId |-> Undefined])]
               ELSE AgentQualificationLoop(total, rules, i + 1, agentId, sch, fieldMap,
                                           [acc EXCEPT !.evaluated = Append(@, rule.id)])
          ELSE AgentQualificationLoop(total, rules, i + 1, agentId, sch, fieldMap, acc)

\* step 4b: the zero-credit test, then the agent-level rules
agentQualification(total, agentId, sch, fieldMap, agentRuleLogs) ==
  IF lte(total, Decimal(0))
  THEN [thrown |-> FALSE, qualified |-> FALSE, evaluated |-> <<>>, logs |-> agentRuleLogs]
  ELSE AgentQualificationLoop(total, agentLevelQualRules(sch, fieldMap), 1, agentId, sch,
                              fieldMap,
                              [thrown |-> FALSE, qualified |-> TRUE, evaluated |-> <<>>,
                               logs |-> agentRuleLogs])

\* creditDistributions[key].push(record)
PushTo(distributions, key, record) ==
  Put(distributions, key,
      Append(IF Has(distributions, key) THEN distributions[key] ELSE <<>>, record))

\* step 4d: the loop over scheme.creditSplits from split i; acc is [logs,
\* creditDistributions]
RECURSIVE CreditSplitLoop(_, _, _, _, _, _)
CreditSplitLoop(splits, i, agentId, basePayout, ctx, acc) ==
  IF i > Len(splits) THEN acc
  ELSE LET split == splits[i]
           percentage == Decimal(split.percentage)
           splitAmount == dividedBy100(times(basePayout, percentage))
           distributionRecord ==
             [fromAgent |-> agentId, role |-> split.role,
              amount |-> formatDecimal(splitAmount, 2), splitRuleId |-> split.id,
              basePayout |-> formatDecimal(basePayout, 2),
              percentage |-> formatDecimal(percentage, 4)]
           event == [ruleType |-> "CreditSplit", ruleId |-> split.id,
                     agentId |-> agentId, transactionId |-> Undefined]
           \* the split once findManager gave managerId
           Distribute(managerId) ==
             IF ~Falsy(managerId)
             THEN CreditSplitLoop(splits, i + 1, agentId, basePayout, ctx,
                    [logs |-> Append(acc.logs, event @@ [details |-> distributionRecord]),
                     creditDistributions |->
                       PushTo(acc.creditDistributions, managerId, distributionRecord)])
             ELSE CreditSplitLoop(splits, i + 1, agentId, basePayout, ctx,
                    [acc EXCEPT !.logs = Append(@, event)])
       IN IF lte(percentage, Decimal(0))
          THEN CreditSplitLoop(splits, i + 1, agentId, basePayout, ctx, acc)
          ELSE Distribute(findManager(agentId, split.role, ctx.hierarchyData.rows,
                                      ctx.schemeStart, ctx.runDate))

\* the body of the loop over recordsByAgent for one agent: what it adds to the
\* four result objects, or thrown
processAgent(agentId, agentRecords, sch, fieldMap, ctx, out) ==
  LET \* step 4d and the entries of the agent in the result objects
      Distributed(recs, qual, basePayout, splits) ==
        [thrown |-> FALSE,
         agentPayouts |-> Put(out.agentPayouts, agentId, formatDecimal(basePayout, 2)),
         ruleHitLogs |-> IF Len(splits.logs) > 0
                         THEN Put(out.ruleHitLogs, agentId, splits.logs)
                         ELSE out.ruleHitLogs,
         creditDistributions |-> splits.creditDistributions,
         rawRecordLevelData |-> out.rawRecordLevelData \o recs.processed,
         agentResults |-> Put(out.agentResults, agentId,
                              [total |-> recs.total, qualified |-> qual.qualified,
                               evaluated |-> qual.evaluated, payout |-> basePayout])]
      Paid(recs, qual, basePayout) ==
        Distributed(recs, qual, basePayout,
          IF gt(basePayout, Decimal(0)) /\ Len(RuleList(sch, "creditSplits")) > 0
             /\ ctx.hierarchyData.defined
          THEN CreditSplitLoop(sch.creditSplits, 1, agentId, basePayout, ctx,
                               [logs |-> qual.logs,
                                creditDistributions |-> out.creditDistributions])
          ELSE [logs |-> qual.logs, creditDistributions |-> out.creditDistributions])
      \* step 4c: the payout of a qualified agent
      Qualified(recs, qual) ==
        IF qual.thrown THEN [out EXCEPT !.thrown = TRUE]
        ELSE Paid(recs, qual,
                  IF qual.qualified
                  THEN calculateMarginalTieredPayout(recs.total, RuleList(sch, "payoutTiers"))
                  ELSE Decimal(0))
      \* step 4b on what the records of the agent gave
      Processed(recs) ==
        IF recs.thrown THEN [out EXCEPT !.thrown = TRUE]
        ELSE Qualified(recs, agentQualification(recs.total, agentId, sch, fieldMap,
                                                recs.logs))
  IN Processed(processAgentRecords(agentRecords, 1, agentId, sch, fieldMap, ctx,
                                   [thrown |-> FALSE, total |-> Decimal(0),
                                    logs |-> <<>>, processed |-> <<>>]))

----------------------------------------------------------------------------
(* runScheme.js: the uploaded files are CSV texts.  A text is modelled as   *)
(* its header line and its data lines, each split into trimmed values.     *)

\* the row object of one data line: one property per header
RowObject(headers, values) ==
  [h \in {headers[k] : k \in 1..Len(headers)} |->
     values[CHOOSE k \in 1..Len(headers) :
              headers[k] = h /\ \A j \in 1..Len(headers) : headers[j] = h => j <= k]]

\* runScheme.js parseCSV: lines with fewer values than headers are skipped
RECURSIVE ParseLines(_, _, _)
ParseLines(headers, lines, n) ==
  IF n = 0 THEN <<>>
  ELSE IF Len(lines[n]) < Len(headers) THEN ParseLines(headers, lines, n - 1)
  ELSE Append(ParseLines(headers, lines, n - 1), RowObject(headers, lines[n]))

parseCSV(csvString) ==
  IF Len(csvString.lines) = 0 THEN <<>>
  ELSE ParseLines(csvString.headers, csvString.lines, Len(csvString.lines))

\* runScheme.js parseDate: null for an empty or unparseable string
parseDateJs(dateString) ==
  IF Falsy(dateString) THEN NoDate ELSE parseDate(dateString)

\* runScheme.js findManager(hierarchyData, agentId, transactionDate): the first row
\* of the agent valid on the date; a row without a parseable 'Reports To' is open
ManagerRowValid(row, agentId, transactionDate) ==
  LET fromDate == parseDateJs(Get(row, "Reports From"))
      toDate == parseDateJs(Get(row, "Reports To"))
  IN /\ Get(row, "Sales Employee") = agentId
     /\ fromDate # NoDate /\ fromDate <= transactionDate
     /\ (toDate # NoDate => transactionDate <= toDate)

findManagerJs(hierarchyData, agentId, transactionDate) ==
  IF Falsy(agentId) THEN Null
  ELSE LET hits == { i \in 1..Len(hierarchyData) :
                       ManagerRowValid(hierarchyData[i], agentId, transactionDate) }
       IN IF hits = {} THEN Null
          ELSE Get(hierarchyData[CHOOSE i \in hits : \A j \in hits : i <= j],
                   "Reports To Person")

\* the base rows kept by the date filter of runScheme.js, each with the position
\* it had in the parsed file
RowInRange(row, sch, effectiveFromDate, runAsOfDate) ==
  LET txDate == parseDateJs(Get(row, Get(sch.baseMapping, "transactionDateField")))
  IN /\ txDate # NoDate
     /\ (effectiveFromDate # NoDate => txDate >= effectiveFromDate)
     /\ txDate <= runAsOfDate

filteredRecords(baseData, sch, effectiveFromDate, runAsOfDate) ==
  LET indexed == [i \in 1..Len(baseData) |-> [row |-> baseData[i], index |-> i - 1]]
      Keep(record) == RowInRange(record.row, sch, effectiveFromDate, runAsOfDate)
  IN SelectSeq(indexed, Keep)

\* the Warning entries of the date filter for the rows whose date does not parse
RECURSIVE DateWarnings(_, _, _)
DateWarnings(baseData, sch, n) ==
  IF n = 0 THEN <<>>
  ELSE LET row == baseData[n]
           before == DateWarnings(baseData, sch, n - 1)
       IN IF parseDateJs(Get(row, Get(sch.baseMapping, "transactionDateField"))) = NoDate
          THEN Append(before, [level |-> "Warning",
                               agentId |-> OrDefault(Get(row, Get(sch.baseMapping, "agentField")),
                                                     "Unknown")])
          ELSE before

\* the keys of agentData in the order for...in visits them, and the Warning
\* entries for the records without agent id
RECURSIVE AgentDataOrder(_, _, _)
AgentDataOrder(records, n, agentField) ==
  IF n = 0 THEN <<>>
  ELSE LET before == AgentDataOrder(records, n - 1, agentField)
           agentId == Get(records[n].row, agentField)
       IN IF Falsy(agentId) \/ \E i \in 1..Len(before) : before[i] = agentId THEN before
          ELSE Append(before, agentId)

AgentWarnings(records, agentField) ==
  LET NoAgent(record) == Falsy(Get(record.row, agentField))
  IN [i \in 1..Len(SelectSeq(records, NoAgent)) |-> [level |-> "Warning"]]

\* agentData[agentId].records; recordInternalId is a fresh random id, here the
\* position of the row in the file
agentDataRecords(records, agentId, agentField) ==
  LET Mine(record) == Get(record.row, agentField) = agentId
      mine == SelectSeq(records, Mine)
  IN [i \in 1..Len(mine) |->
        [row |-> mine[i].row,
         recordInternalId |-> "rec_" \o ToString(mine[i].index)]]

----------------------------------------------------------------------------
(* runScheme.js, step 3: exclusion and adjustment of one agent's records   *)

\* fields.find((f) => f.name === name): the index of the first such field, or 0
FindField(fields, name) ==
  IF \E k \in 1..Len(fields) : Get(fields[k], "name") = name
  THEN CHOOSE k \in 1..Len(fields) :
         /\ Get(fields[k], "name") = name
         /\ \A j \in 1..Len(fields) : Get(fields[j], "name") = name => k <= j
  ELSE 0

\* fieldDef.dataType as evaluateRule takes it: 'String' when undefined
DataTypeOf(fieldDef) ==
  IF Get(fieldDef, "dataType") = Undefined THEN "String" ELSE fieldDef.dataType

\* the exclusion rules on one record from rule i: the index of the first rule
\* that matches, or 0
RECURSIVE ExclusionScanJs(_, _, _)
ExclusionScanJs(record, sch, i) ==
  IF i > Len(sch.exclusionRules) THEN 0
  ELSE LET rule == sch.exclusionRules[i]
           k == FindField(sch.kpiConfig.exclusionFields, rule.field)
           fieldDef == sch.kpiConfig.exclusionFields[k]
       IN IF k = 0 THEN ExclusionScanJs(record, sch, i + 1)
          ELSE IF evaluateRule(Get(record.row, fieldDef.sourceField), rule.operator,
                               rule.value, DataTypeOf(fieldDef))
          THEN i
          ELSE ExclusionScanJs(record, sch, i + 1)

\* the effect of one matching adjustment rule on currentAmount and rateMultiplier
ApplyAdjustmentJs(adj, acc) ==
  LET adjValue == Decimal(adj.value) IN
    IF adj.target = "Amount" /\ adj.type = "percentage"
    THEN [acc EXCEPT !.currentAmount = plus(@, dividedBy100(times(@, adjValue)))]
    ELSE IF adj.target = "Amount" /\ adj.type = "fixed"
    THEN [acc EXCEPT !.currentAmount = plus(@, adjValue)]
    ELSE IF adj.target = "Rate" /\ adj.type = "percentage"
    THEN [acc EXCEPT !.rateMultiplier = times(@, dividedBy100(adjValue))]
    ELSE IF adj.target = "Rate" /\ adj.type = "fixed"
    THEN [acc EXCEPT !.rateMultiplier = times(@, adjValue)]
    ELSE acc

\* the adjustment rules on one record from rule i; acc is [currentAmount,
\* rateMultiplier, logs]
RECURSIVE AdjustmentLoopJs(_, _, _, _, _)
AdjustmentLoopJs(record, agentId, sch, i, acc) ==
  IF i > Len(sch.adjustmentRules) THEN acc
  ELSE LET rule == sch.adjustmentRules[i]
           k == FindField(sch.kpiConfig.adjustmentFields, rule.condition.field)
           fieldDef == sch.kpiConfig.adjustmentFields[k]
       IN IF k = 0 THEN AdjustmentLoopJs(record, agentId, sch, i + 1, acc)
          ELSE IF evaluateRule(Get(record.row, fieldDef.sourceField),
                               rule.condition.operator, rule.condition.value,
                               DataTypeOf(fieldDef))
          THEN AdjustmentLoopJs(record, agentId, sch, i + 1,
                 [ApplyAdjustmentJs(rule.adjustment, acc) EXCEPT
                    !.logs = Append(@, [ruleType |-> "Adjustment", ruleId |-> rule.id,
                                        recordId |-> record.recordInternalId,
                                        agentId |-> agentId, matched |-> TRUE])])
          ELSE AdjustmentLoopJs(record, agentId, sch, i + 1, acc)

\* the loop over agentInfo.records from record i; acc is [totalAdjustedAmount,
\* processedRecords, logs (what the loop pushes to rawRecordLevelData)]
RECURSIVE RecordLoopJs(_, _, _, _, _)
RecordLoopJs(records, i, agentId, sch, acc) ==
  IF i > Len(records) THEN acc
  ELSE LET record == records[i]
           baseAmountValue == OrZero(Get(record.row, Get(sch.baseMapping, "amountField")))
           entry(ruleType) == [ruleType |-> ruleType,
                               recordId |-> record.recordInternalId,
                               agentId |-> agentId, matched |-> TRUE]
           \* the record is kept with finalRecordAmount = currentAmount * rateMultiplier
           Kept(adjusted) ==
             RecordLoopJs(records, i + 1, agentId, sch,
               [totalAdjustedAmount |->
                  plus(acc.totalAdjustedAmount,
                       times(adjusted.currentAmount, adjusted.rateMultiplier)),
                processedRecords |->
                  Append(acc.processedRecords,
                         [row |-> record.row,
                          recordInternalId |-> record.recordInternalId,
                          adjustedAmount |->
                            times(adjusted.currentAmount, adjusted.rateMultiplier)]),
                logs |-> IF Len(RuleList(sch, "customRules")) > 0
                         THEN Append(adjusted.logs,
                                     [ruleType |-> "Custom",
                                      recordId |-> record.recordInternalId,
                                      agentId |-> agentId])
                         ELSE adjusted.logs])
           \* the record once the exclusion rules gave hit (0: none matched)
           Scanned(hit) ==
             IF hit > 0
             THEN RecordLoopJs(records, i + 1, agentId, sch,
                    [acc EXCEPT !.logs =
                       Append(@, entry("Exclusion")
                                   @@ [ruleId |-> sch.exclusionRules[hit].id])])
             ELSE Kept(AdjustmentLoopJs(record, agentId, sch, 1,
                         [currentAmount |-> NewDecimal(baseAmountValue),
                          rateMultiplier |-> Decimal(1), logs |-> acc.logs]))
       IN IF ~Numeric(baseAmountValue)
          THEN RecordLoopJs(records, i + 1, agentId, sch,
                 [acc EXCEPT !.logs = Append(@, entry("DataError"))])
          ELSE Scanned(ExclusionScanJs(record, sch, 1))

----------------------------------------------------------------------------
(* runScheme.js, step 4: the qualification rules of one agent.  The loop   *)
(* writes to the rule and to the field definition of a Per Record rule, so *)
(* it yields the scheme object as well.                                    *)

\* String(true), String(false)
BooleanString(b) == IF b THEN "true" ELSE "false"

\* the reduce over agentInfo.records for aggregation Sum, from record n down;
\* a value that does not parse is left out (and logged)
RECURSIVE SumOverRecords(_, _, _, _)
SumOverRecords(records, n, sourceField, amountField) ==
  IF n = 0 THEN Decimal(0)
  ELSE LET before == SumOverRecords(records, n - 1, sourceField, amountField)
           value == OrZero(Get(records[n].row, sourceField))
       IN IF sourceField = amountField THEN plus(before, records[n].adjustedAmount)
          ELSE IF Numeric(value) THEN plus(before, NewDecimal(value))
          ELSE before

SumWarnings(records, ruleId, sourceField, amountField) ==
  LET Unparsed(rec) == sourceField # amountField
                          /\ ~Numeric(OrZero(Get(rec.row, sourceField)))
  IN [i \in 1..Len(SelectSeq(records, Unparsed)) |->
        [level |-> "Warning", ruleId |-> ruleId]]

\* rule.value = true; rule.operator = '='; fieldDef.dataType = 'Boolean'
\* (true is written "true": evaluateRule takes String() of it)
MarkPerRecordRule(sch, i, k) ==
  [sch EXCEPT !.qualificationRules[i].value = "true",
              !.qualificationRules[i].operator = "=",
              !.kpiConfig.qualificationFields[k] =
                 [f \in DOMAIN @ \cup {"dataType"} |->
                    IF f = "dataType" THEN "Boolean" ELSE @[f]]]

\* the loop over scheme.qualificationRules from rule i; acc is [sch, qualified,
\* evaluated (the ids of the rules handed to evaluateRule), logs]
RECURSIVE QualificationLoopJs(_, _, _, _)
QualificationLoopJs(i, agentId, records, acc) ==
  IF i > Len(acc.sch.qualificationRules) THEN acc
  ELSE LET sch == acc.sch
           rule == sch.qualificationRules[i]
           k == FindField(sch.kpiConfig.qualificationFields, rule.field)
           fieldDef == sch.kpiConfig.qualificationFields[k]
           isAgent == Get(fieldDef, "evaluationLevel") = "Agent"
           aggregation == Get(fieldDef, "aggregation")
           \* the rule and the field definition a Per Record rule is left with
           Marked(marked, foundMatch) ==
             evaluateRule(BooleanString(foundMatch), marked.qualificationRules[i].operator,
                          marked.qualificationRules[i].value,
                          DataTypeOf(marked.kpiConfig.qualificationFields[k]))
           \* the log entries and the outcome once the rule evaluated to ruleMet
           Evaluated(ruleMet) ==
             LET after ==
                   [sch |-> IF isAgent THEN sch ELSE MarkPerRecordRule(sch, i, k),
                    qualified |-> acc.qualified,
                    evaluated |-> Append(acc.evaluated, rule.id),
                    logs |-> Append(acc.logs \o
                                      (IF isAgent /\ aggregation = "Sum"
                                       THEN SumWarnings(records, rule.id, fieldDef.sourceField,
                                                        Get(sch.baseMapping, "amountField"))
                                       ELSE <<>>),
                                    [ruleType |-> "Qualification", ruleId |-> rule.id,
                                     agentId |-> agentId, matched |-> ruleMet])]
             IN IF ruleMet THEN QualificationLoopJs(i + 1, agentId, records, after)
                ELSE [after EXCEPT !.qualified = FALSE,
                                   !.logs = Append(@, [ruleType |-> "Qualification",
                                                       agentId |-> agentId,
                                                       matched |-> FALSE])]
       IN IF k = 0 THEN QualificationLoopJs(i + 1, agentId, records, acc)
          ELSE IF isAgent /\ aggregation \notin {"Sum", "Count"}
          THEN QualificationLoopJs(i + 1, agentId, records,
                 [acc EXCEPT !.logs = Append(@, [level |-> "Error", ruleId |-> rule.id])])
          ELSE IF isAgent
          THEN Evaluated(evaluateRuleOnDecimal(
                           IF aggregation = "Sum"
                           THEN SumOverRecords(records, Len(records), fieldDef.sourceField,
                                               Get(sch.baseMapping, "amountField"))
                           ELSE Decimal(Len(records)),
                           rule.operator, rule.value, DataTypeOf(fieldDef)))
          ELSE Evaluated(Marked(MarkPerRecordRule(sch, i, k),
                                \E n \in 1..Len(records) :
                                  evaluateRule(Get(records[n].row, fieldDef.sourceField),
                                               rule.operator, rule.value,
                                               DataTypeOf(fieldDef))))

----------------------------------------------------------------------------
(* runScheme.js, step 5: the quota gate and the tiered payout *)

\* scheme.quotaAmount ? new Decimal(scheme.quotaAmount) : new Decimal(0)
QuotaOf(sch) == IF Has(sch, "quotaAmount") THEN Decimal(sch.quotaAmount) ELSE Decimal(0)

\* quota.gt(0) and totalAdjustedAmount.lt(quota) is the only way not to meet it
meetsQuota(sch, totalAdjustedAmount) ==
  ~(gt(QuotaOf(sch), Decimal(0)) /\ lt(totalAdjustedAmount, QuotaOf(sch)))

\* agentInfo.payout and the entries step 5 adds to agentInfo.logs
payoutStep(sch, agentId, qualified, totalAdjustedAmount) ==
  LET quotaEntry == IF gt(QuotaOf(sch), Decimal(0))
                    THEN << [ruleType |-> "Quota", agentId |-> agentId,
                             matched |-> meetsQuota(sch, totalAdjustedAmount)] >>
                    ELSE <<>>
      Paid(payout) ==
        [payout |-> payout,
         logs |-> Append(quotaEntry,
                         [ruleType |-> "PayoutCalculation", agentId |-> agentId,
                          baseAmount |-> toFixed(totalAdjustedAmount, 2),
                          payoutAmount |-> toFixed(payout, 2)])]
  IN IF ~qualified THEN [payout |-> Decimal(0), logs |-> <<>>]
     ELSE IF ~meetsQuota(sch, totalAdjustedAmount)
     THEN [payout |-> Decimal(0), logs |-> quotaEntry]
     ELSE Paid(calculateTieredPayout(totalAdjustedAmount, sch.payoutTiers))

----------------------------------------------------------------------------
(* runScheme.js, step 6: the credit splits of one agent.  The entries go   *)
(* to creditDistributions[agentId], the list of the agent who earned the   *)
(* payout; currentAgentForLookup and level are kept from split to split.   *)

\* parseInt(role.substring(1)) for the roles of the model; 0 stands for NaN
RoleLevels == [L1 |-> 1, L2 |-> 2, L3 |-> 3]

targetLevelOf(role) == IF role \in DOMAIN RoleLevels THEN RoleLevels[role] ELSE 0

\* for (let i = level; i < targetLevel; i++): st is [currentAgentForLookup, level,
\* failed]; steps is the number of iterations left
RECURSIVE ClimbHierarchy(_, _, _, _)
ClimbHierarchy(hierarchyData, runAsOfDate, steps, st) ==
  IF steps = 0 THEN st
  ELSE LET Step(managerId) ==
             IF managerId # Null
             THEN ClimbHierarchy(hierarchyData, runAsOfDate, steps - 1,
                                 [currentAgentForLookup |-> managerId,
                                  level |-> st.level + 1, failed |-> FALSE])
             ELSE [currentAgentForLookup |-> Null, level |-> st.level, failed |-> TRUE]
       IN Step(findManagerJs(hierarchyData, st.currentAgentForLookup, runAsOfDate))

\* the loop over scheme.creditSplits from split i; acc is [currentAgentForLookup,
\* level, entries (creditDistributions[agentId])]
RECURSIVE CreditSplitLoopJs(_, _, _, _, _, _, _)
CreditSplitLoopJs(splits, i, agentId, payout, hierarchyData, runAsOfDate, acc) ==
  IF i > Len(splits) THEN acc
  ELSE LET splitRule == splits[i]
           role == splitRule.role
           targetLevel == targetLevelOf(role)
           start == [currentAgentForLookup |-> acc.currentAgentForLookup,
                     level |-> acc.level, failed |-> FALSE]
           creditAmount == dividedBy100(times(payout, Decimal(splitRule.percentage)))
           \* the entries of the split for targetAgentId
           Outcome(targetAgentId) ==
             IF ~Falsy(targetAgentId)
             THEN IF gt(creditAmount, Decimal(0))
                  THEN << [fromAgent |-> agentId, toAgent |-> targetAgentId,
                           level |-> role, percentage |-> splitRule.percentage,
                           amount |-> toFixed(creditAmount, 2)] >>
                  ELSE <<>>
             ELSE IF role # "L1"
             THEN << [level |-> "Info", fromAgent |-> agentId, targetRole |-> role] >>
             ELSE <<>>
           \* the split once the walk up the hierarchy left climbed
           Credited(climbed) ==
             CreditSplitLoopJs(splits, i + 1, agentId, payout, hierarchyData, runAsOfDate,
               [currentAgentForLookup |-> climbed.currentAgentForLookup,
                level |-> climbed.level,
                entries |->
                  acc.entries
                    \o (IF climbed.failed
                        THEN << [level |-> "Warning", fromAgent |-> agentId,
                                 targetRole |-> role] >>
                        ELSE <<>>)
                    \o Outcome(IF role = "L1" THEN agentId
                               ELSE IF targetLevel > acc.level
                               THEN IF ~Falsy(climbed.currentAgentForLookup)
                                       /\ climbed.level = targetLevel
                                    THEN climbed.currentAgentForLookup ELSE Null
                               ELSE IF targetLevel # 0 /\ targetLevel = acc.level
                               THEN acc.currentAgentForLookup
                               ELSE Null)])
       IN Credited(IF role # "L1" /\ targetLevel > acc.level
                   THEN ClimbHierarchy(hierarchyData, runAsOfDate,
                                       targetLevel - acc.level, start)
                   ELSE start)

\* the body of the loop over agentData for one agent: what it adds to the result
\* objects, and the scheme object it leaves
processAgentJs(agentId, records, sch, hierarchyData, runAsOfDate, out) ==
  LET \* step 6 and the entries of the agent in the result objects
      Distributed(recs, qual, pay, splits) ==
        [sch |-> qual.sch,
         agentPayouts |-> Put(out.agentPayouts, agentId, toFixed(pay.payout, 2)),
         ruleHitLogs |-> IF Len(qual.logs \o pay.logs) > 0
                         THEN Put(out.ruleHitLogs, agentId, qual.logs \o pay.logs)
                         ELSE out.ruleHitLogs,
         creditDistributions |->
           IF qual.qualified /\ gt(pay.payout, Decimal(0)) /\ Len(hierarchyData) > 0
              /\ Len(qual.sch.creditSplits) > 0
           THEN Put(out.creditDistributions, agentId, splits.entries)
           ELSE out.creditDistributions,
         rawRecordLevelData |-> out.rawRecordLevelData \o recs.logs,
         agentResults |-> Put(out.agentResults, agentId,
                              [total |-> recs.totalAdjustedAmount,
                               qualified |-> qual.qualified,
                               evaluated |-> qual.evaluated, payout |-> pay.payout])]
      Paid(recs, qual, pay) ==
        Distributed(recs, qual, pay,
          CreditSplitLoopJs(qual.sch.creditSplits, 1, agentId, pay.payout,
                            hierarchyData, runAsOfDate,
                            [currentAgentForLookup |-> agentId, level |-> 1,
                             entries |-> IF Has(out.creditDistributions, agentId)
                                         THEN out.creditDistributions[agentId]
                                         ELSE <<>>]))
      \* step 5 on what the qualification rules gave
      Qualified(recs, qual) ==
        Paid(recs, qual,
             payoutStep(qual.sch, agentId, qual.qualified, recs.totalAdjustedAmount))
      \* step 4 on what the records of the agent gave
      Processed(recs) ==
        Qualified(recs, QualificationLoopJs(1, agentId, recs.processedRecords,
                                            [sch |-> sch, qualified |-> TRUE,
                                             evaluated |-> <<>>, logs |-> <<>>]))
  IN Processed(RecordLoopJs(records, 1, agentId, sch,
                            [totalAdjustedAmount |-> Decimal(0),
                             processedRecords |-> <<>>, logs |-> <<>>]))

----------------------------------------------------------------------------
(* The schemes and files of the runs.  The base file sales.csv has the     *)
(* columns Rep, Net, Date, Txn and Cat; the hierarchy file is hier.csv.    *)

BaseMapping ==
  [sourceFile |-> "sales.csv", agentField |-> "Rep", amountField |-> "Net",
   transactionDateField |-> "Date", txnID |-> "Txn"]

KpiField(name, sourceField, dataType, evaluationLevel, aggregation) ==
  [name |-> name, sourceField |-> sourceField, sourceFile |-> "sales.csv",
   dataType |-> dataType, evaluationLevel |-> evaluationLevel,
   aggregation |-> aggregation]

CategoryField == KpiField("Category", "Cat", "String", "Per Record", "NotApplicable")

MinSalesField == KpiField("MinSales", "Net", "Number", "Agent", "Sum")

KpiConfig ==
  [baseData |-> <<>>,
   qualificationFields |-> <<MinSalesField, CategoryField>>,
   adjustmentFields |-> <<CategoryField>>,
   exclusionFields |-> <<CategoryField>>,
   creditFields |-> <<>>]

SchemeOf(qualificationRules, exclusionRules, adjustmentRules, creditSplits, payoutTiers) ==
  [name |-> "S", effectiveFrom |-> "2024-01-01", baseMapping |-> BaseMapping,
   kpiConfig |-> KpiConfig,
   qualificationRules |-> qualificationRules, exclusionRules |-> exclusionRules,
   adjustmentRules |-> adjustmentRules, creditSplits |-> creditSplits,
   customRules |-> <<>>, payoutTiers |-> payoutTiers]

\* the object without one property
Without(obj, property) == [k \in DOMAIN obj \ {property} |-> obj[k]]

RunAsOfDate == "2024-12-31"

\* a row of sales.csv before its transaction id is given
Sale(rep, net, date, cat) == [Rep |-> rep, Net |-> net, Date |-> date, Cat |-> cat]

\* the rows get the transaction ids T1, T2, ... in file order
WithTxn(rows) ==
  [i \in 1..Len(rows) |->
     [c \in DOMAIN rows[i] \cup {"Txn"} |->
        IF c = "Txn" THEN "T" \o ToString(i) ELSE rows[i][c]]]

\* the CSV text of a file with the given columns
CsvOf(headers, rows) ==
  [headers |-> headers,
   lines |-> [i \in 1..Len(rows) |-> [k \in 1..Len(headers) |-> rows[i][headers[k]]]]]

SalesHeaders == <<"Rep", "Net", "Date", "Txn", "Cat">>

HierarchyHeaders ==
  <<"AgentID", "Level", "ManagerID", "ReportsFrom", "ReportsToEnd",
    "Sales Employee", "Reports To Person", "Reports From", "Reports To">>

\* uploadedFiles: parsed files {data: [...]} for index.ts, CSV texts for runScheme.js
ParsedFile(rows) == [data |-> [isArray |-> TRUE, items |-> rows]]

FilesOf(impl, sales, hierarchy) ==
  IF impl = "ts"
  THEN [f \in {"sales.csv", "hier.csv"} |->
          IF f = "sales.csv" THEN ParsedFile(sales) ELSE ParsedFile(hierarchy)]
  ELSE [f \in {"sales.csv", "hier.csv"} |->
          IF f = "sales.csv" THEN CsvOf(SalesHeaders, sales)
          ELSE CsvOf(HierarchyHeaders, hierarchy)]

Impls == {"ts", "js"}

Scenario(impl, sch, files, runAsOfDate) ==
  [impl |-> impl, scheme |-> sch, uploadedFiles |-> files, runAsOfDate |-> runAsOfDate]

----------------------------------------------------------------------------
(* Schemes without rules: every base file of up to MaxRows rows *)

SalePool ==
  { Sale("A", "1000", "2024-06-15", "X"), Sale("A", "2000", "2024-01-01", "Y"),
    Sale("B", "0", "2024-06-15", "X"), Sale("B", "-500", "2024-12-31", "X"),
    Sale("A", "1000", "2023-12-31", "X"), Sale("B", "1500", "2025-01-01", "Y"),
    Sale("A", "abc", "2024-06-15", "X") }

TenPercent == << [id |-> "T", from |-> 0, rate |-> 10, isPercentage |-> TRUE] >>

TwoTiers ==
  << [id |-> "T", from |-> 0, to |-> 1000, rate |-> 5, isPercentage |-> TRUE],
     [id |-> "T", from |-> 1000, rate |-> 10, isPercentage |-> TRUE] >>

\* a scheme with a quotaAmount, or without the property
WithQuota(sch, quota) ==
  IF quota = 0 THEN sch
  ELSE [k \in DOMAIN sch \cup {"quotaAmount"} |->
          IF k = "quotaAmount" THEN quota ELSE sch[k]]

PlainScenarios ==
  { Scenario(impl, WithQuota(SchemeOf(<<>>, <<>>, <<>>, <<>>, tiers), quota),
             FilesOf(impl, WithTxn(rows), <<>>), RunAsOfDate) :
      impl \in Impls, tiers \in {TenPercent, TwoTiers}, quota \in {0, 2500},
      rows \in SeqsUpTo(SalePool, MaxRows) }

----------------------------------------------------------------------------
(* Schemes with qualification, exclusion and adjustment rules *)

Rule(id, field, operator, value) ==
  [id |-> id, field |-> field, operator |-> operator, value |-> value]

AdjustmentRule(id, condition, target, type, value) ==
  [id |-> id, condition |-> condition,
   adjustment |-> [target |-> target, type |-> type, value |-> value]]

ExclusionOptions ==
  { <<>>,
    << Rule("E1", "Category", "=", "X") >>,
    << Rule("E2", "Category", "CONTAINS", "N"), Rule("E1", "Category", "=", "X") >>,
    << Rule("E1", "Category", "=", "X"), Rule("E3", "Category", "!=", "Y") >>,
    << Rule("E0", "Region", "=", "X") >> }

AdjustmentOptions ==
  { <<>>,
    << AdjustmentRule("J1", Rule("c", "Category", "=", "Y"), "Amount", "percentage", 50) >>,
    << AdjustmentRule("J1", Rule("c", "Category", "=", "Y"), "Amount", "percentage", 50),
       AdjustmentRule("J2", Rule("c", "Category", "!=", "N"), "Rate", "percentage", 200) >>,
    << AdjustmentRule("J3", Rule("c", "Category", "=", "X"), "Amount", "fixed", 500),
       AdjustmentRule("J4", Rule("c", "Category", "=", "Y"), "Rate", "fixed", 2) >> }

QualificationOptions ==
  { <<>>,
    << Rule("Q1", "MinSales", ">=", "1500") >>,
    << Rule("Q2", "Category", "=", "Y") >>,
    << Rule("Q2", "Category", "=", "Y"), Rule("Q1", "MinSales", ">=", "1500") >> }

RuleSales ==
  { << Sale("A", "1000", "2024-06-15", "X"), Sale("A", "2000", "2024-06-15", "Y"),
       Sale("B", "1500", "2024-06-15", "X") >>,
    << Sale("B", "0", "2024-06-15", "Y"), Sale("A", "2000", "2024-06-15", "Y") >> }

RuleScenarios ==
  { Scenario(impl, SchemeOf(qualification, exclusion, adjustment, <<>>, TenPercent),
             FilesOf(impl, WithTxn(rows), <<>>), RunAsOfDate) :
      impl \in Impls, qualification \in QualificationOptions,
      exclusion \in ExclusionOptions, adjustment \in AdjustmentOptions,
      rows \in RuleSales }

----------------------------------------------------------------------------
(* Schemes with qualification rules on fields aggregated per agent: the    *)
(* number of records (Count) and an aggregation that is neither Sum nor    *)
(* Count                                                                   *)

DealsField == KpiField("Deals", "Txn", "Number", "Agent", "Count")

AverageField == KpiField("AvgSale", "Net", "Number", "Agent", "Average")

AggregateOptions ==
  { << Rule("Q3", "Deals", ">=", "2") >>,
    << Rule("Q4", "AvgSale", ">=", "3000") >>,
    << Rule("Q1", "MinSales", ">=", "1500"), Rule("Q3", "Deals", ">=", "2") >>,
    << Rule("Q4", "AvgSale", ">=", "3000"), Rule("Q1", "MinSales", ">=", "1500") >>,
    << Rule("Q1", "MinSales", ">=", "1500"), Rule("Q5", "MinSales", ">=", "3000") >>,
    << Rule("Q5", "MinSales", ">=", "3000"), Rule("Q1", "MinSales", ">=", "1500") >> }

AggregateScenarios ==
  { Scenario(impl,
             [SchemeOf(qualification, <<>>, <<>>, <<>>, TenPercent) EXCEPT
                !.kpiConfig.qualificationFields = <<MinSalesField, DealsField, AverageField>>],
             FilesOf(impl, WithTxn(rows), <<>>), RunAsOfDate) :
      impl \in Impls, qualification \in AggregateOptions, rows \in RuleSales }

----------------------------------------------------------------------------
(* Schemes with credit splits: every hierarchy file of up to MaxHierarchy  *)
(* rows                                                                    *)

CreditSplit(id, role, percentage) == [id |-> id, role |-> role, percentage |-> percentage]

SplitOptions ==
  { << CreditSplit("S2", "L2", 20) >>,
    << CreditSplit("S2", "L2", 20), CreditSplit("S3", "L3", 10) >>,
    << CreditSplit("S3", "L3", 10), CreditSplit("S2", "L2", 20) >>,
    << CreditSplit("S1", "L1", 50), CreditSplit("S0", "L2", 0) >> }

CreditHierarchyRows ==
  { HierarchyRow("A", "L2", "M", "2024-01-01", "2024-12-31"),
    HierarchyRow("A", "L3", "N", "2024-01-01", "2024-12-31"),
    HierarchyRow("M", "L2", "N", "2024-01-01", "2024-12-31"),
    HierarchyRow("A", "L2", "P", "2024-01-01", "2024-06-15") }

CreditSales ==
  { << Sale("A", "1000", "2024-06-15", "X"), Sale("A", "2000", "2024-06-15", "Y") >>,
    << Sale("A", "1000", "2024-06-15", "X"), Sale("A", "2000", "2024-06-15", "Y"),
       Sale("M", "1000", "2024-06-15", "X") >> }

WithHierarchyFile(sch) ==
  [k \in DOMAIN sch \cup {"creditHierarchyFile"} |->
     IF k = "creditHierarchyFile" THEN "hier.csv" ELSE sch[k]]

CreditScenarios ==
  { Scenario(impl, WithHierarchyFile(SchemeOf(<<>>, <<>>, <<>>, splits, TenPercent)),
             FilesOf(impl, WithTxn(rows), hierarchy), RunAsOfDate) :
      impl \in Impls, splits \in SplitOptions, rows \in CreditSales,
      hierarchy \in SeqsUpTo(CreditHierarchyRows, MaxHierarchy) }

----------------------------------------------------------------------------
(* Schemes, files and run dates that the validation may refuse *)

PlainScheme == SchemeOf(<<>>, <<>>, <<>>, <<>>, TenPercent)

WithBaseMapping(sch, baseMapping) == [sch EXCEPT !.baseMapping = baseMapping]

SchemeVariants ==
  { PlainScheme,
    Without(PlainScheme, "baseMapping"),
    WithBaseMapping(PlainScheme, [BaseMapping EXCEPT !.sourceFile = ""]),
    WithBaseMapping(PlainScheme, Without(BaseMapping, "agentField")),
    WithBaseMapping(PlainScheme, Without(BaseMapping, "amountField")),
    WithBaseMapping(PlainScheme, Without(BaseMapping, "txnID")),
    [PlainScheme EXCEPT !.effectiveFrom = "not-a-date"],
    Without(PlainScheme, "effectiveFrom") }

ValidSales == << Sale("A", "1000", "2024-06-15", "X"), Sale("A", "2000", "2024-06-15", "Y") >>

\* uploadedFiles for index.ts: the base file as it should be, absent, without
\* data, with data that is not an array, empty, and without the Txn column
ParsedFileVariants ==
  { FilesOf("ts", WithTxn(ValidSales), <<>>),
    [f \in {"hier.csv"} |-> ParsedFile(<<>>)],
    [f \in {"sales.csv"} |-> [name |-> "sales.csv"]],
    [f \in {"sales.csv"} |-> [data |-> [isArray |-> FALSE, items |-> <<>>]]],
    FilesOf("ts", <<>>, <<>>),
    FilesOf("ts", ValidSales, <<>>) }

\* uploadedFiles for runScheme.js: the base file as it should be, and absent
CsvFileVariants ==
  { FilesOf("js", WithTxn(ValidSales), <<>>),
    [f \in {"hier.csv"} |-> CsvOf(HierarchyHeaders, <<>>)] }

RunDateVariants == { RunAsOfDate, "not-a-date", "" }

ValidationScenarios ==
  { Scenario("ts", sch, files, runAsOfDate) :
      sch \in SchemeVariants \cup {Without(PlainScheme, "payoutTiers")},
      files \in ParsedFileVariants, runAsOfDate \in RunDateVariants }
  \cup
  { Scenario("js", sch, files, runAsOfDate) :
      sch \in SchemeVariants, files \in CsvFileVariants, runAsOfDate \in RunDateVariants }

----------------------------------------------------------------------------
(* Schemes whose field catalog has no entries, entries of the same name in *)
(* several lists, entries of another file and entries without a column     *)

FieldOfFile(field, sourceFile) == [field EXCEPT !.sourceFile = sourceFile]

Catalog(baseData, qualificationFields, adjustmentFields, exclusionFields, creditFields) ==
  [baseData |-> baseData, qualificationFields |-> qualificationFields,
   adjustmentFields |-> adjustmentFields, exclusionFields |-> exclusionFields,
   creditFields |-> creditFields]

CatalogOptions ==
  { Catalog(<<>>, <<>>, <<>>, <<>>, <<>>),
    Catalog(<< CategoryField >>, <<>>, <<>>,
            << KpiField("Category", "Rep", "String", "Per Record", "NotApplicable") >>,
            <<>>),
    Catalog(<< KpiField("Amount", "Cat", "String", "Per Record", "NotApplicable") >>,
            << MinSalesField, KpiField("MinSales", "Txn", "", "", "") >>, <<>>, <<>>,
            <<>>),
    Catalog(<<>>, << MinSalesField >>, <<>>, <<>>,
            << FieldOfFile(KpiField("MinSales", "ManagerID", "String", "Per Record",
                                    "NotApplicable"), "hier.csv") >>),
    Catalog(<<>>, <<>>, <<>>, <<>>,
            << FieldOfFile(KpiField("Manager", "ManagerID", "String", "Per Record",
                                    "NotApplicable"), "hier.csv") >>),
    Catalog(<< Without(CategoryField, "sourceField") >>, <<>>, <<>>, <<>>, <<>>) }

CatalogSchemes ==
  { [SchemeOf(<<>>, <<>>, <<>>, <<>>, TenPercent) EXCEPT !.kpiConfig = catalog] :
      catalog \in CatalogOptions }
  \cup { Without(SchemeOf(<<>>, <<>>, <<>>, <<>>, TenPercent), "kpiConfig") }

CatalogSales ==
  << Sale("A", "1000", "2024-06-15", "X"), Sale("B", "1500", "2024-06-15", "Y") >>

CatalogScenarios ==
  { Scenario("ts", sch, FilesOf("ts", WithTxn(CatalogSales), <<>>), RunAsOfDate) :
      sch \in CatalogSchemes }

----------------------------------------------------------------------------
(* Schemes with rules on Region, a field the catalog does not have *)

UnresolvedExclusions ==
  { << Rule("E0", "Region", "=", "X") >>,
    << Rule("E0", "Region", "=", "X"), Rule("E5", "Category", "=", "xy") >> }

UnresolvedAdjustments ==
  { <<>>,
    << AdjustmentRule("J0", Rule("c", "Region", "=", "X"), "Amount", "fixed", 500) >> }

UnresolvedQualifications ==
  { <<>>,
    << Rule("Q0", "Region", "=", "X") >>,
    << Rule("Q0", "Region", "=", "X"), Rule("Q1", "MinSales", ">=", "1500") >> }

UnresolvedScenarios ==
  { Scenario("ts",
             WithHierarchyFile(SchemeOf(qualification, exclusion, adjustment,
                                        << CreditSplit("S2", "L2", 20) >>, TenPercent)),
             FilesOf("ts", WithTxn(rows),
                     << HierarchyRow("A", "L2", "M", "2024-01-01", "2024-12-31") >>),
             RunAsOfDate) :
      qualification \in UnresolvedQualifications, exclusion \in UnresolvedExclusions,
      adjustment \in UnresolvedAdjustments, rows \in RuleSales }

----------------------------------------------------------------------------
(* Base files with rows on the first and last day of the period, a day     *)
(* outside it, without a date that parses and without an agent             *)

EdgePool ==
  { Sale("A", "1000", date, "X") :
      date \in {"2023-12-31", "2024-01-01", "2024-12-31", "2025-01-01", "not-a-date", ""} }
  \cup { Sale("", "1500", "2024-06-15", "X") }

\* rows of a parsed file that lack the date or the agent column
PartialRows ==
  { << Sale("A", "1000", "2024-06-15", "X"),
       Without(Sale("A", "2000", "2024-06-15", "X"), "Date") >>,
    << Sale("A", "1000", "2024-06-15", "X"),
       Without(Sale("B", "2000", "2024-06-15", "X"), "Rep") >> }

EdgeScenarios ==
  { Scenario(impl, SchemeOf(<<>>, <<>>, <<>>, <<>>, TenPercent),
             FilesOf(impl, WithTxn(rows), <<>>), RunAsOfDate) :
      impl \in Impls, rows \in SeqsUpTo(EdgePool, MaxRows) }
  \cup
  { Scenario("ts", SchemeOf(<<>>, <<>>, <<>>, <<>>, TenPercent),
             FilesOf("ts", WithTxn(rows), <<>>), RunAsOfDate) : rows \in PartialRows }

Scenarios ==
  PlainScenarios \cup RuleScenarios \cup AggregateScenarios \cup CreditScenarios
    \cup ValidationScenarios \cup CatalogScenarios \cup UnresolvedScenarios
    \cup EdgeScenarios

----------------------------------------------------------------------------
(* Runs of runScheme.  A run validates and loads its inputs, selects the   *)
(* records, groups them by agent, processes the agents one after the other *)
(* and returns; an exception thrown on the way ends it.                    *)

EmptyResult ==
  [thrown |-> FALSE, agentPayouts |-> EmptyMap, ruleHitLogs |-> EmptyMap,
   creditDistributions |-> EmptyMap, rawRecordLevelData |-> <<>>,
   agentResults |-> EmptyMap]

NoLocals == [stage |-> "none"]

NoRun == [pc |-> "none"]

\* runScheme.js: the error its initialization throws, or "none"
FatalConditionJs(sch, files, asOfDate) ==
  LET baseDataFile == IF Has(sch, "baseMapping") THEN Get(sch.baseMapping, "sourceFile")
                      ELSE Undefined
  IN IF parseDateJs(asOfDate) = NoDate THEN "Invalid runAsOfDate"
     ELSE IF Falsy(baseDataFile) \/ ~Has(files, baseDataFile)
     THEN "Base data file not found in uploadedFiles."
     ELSE "none"

\* index.ts: hierarchyFile ? uploadedFiles[hierarchyFile]?.data : []
hierarchyDataOf(sch, files) ==
  LET hierarchyFile == Get(sch, "creditHierarchyFile") IN
    IF Falsy(hierarchyFile) THEN [defined |-> TRUE, rows |-> <<>>]
    ELSE IF Has(files, hierarchyFile) /\ Has(files[hierarchyFile], "data")
    THEN [defined |-> TRUE, rows |-> files[hierarchyFile].data.items]
    ELSE [defined |-> FALSE, rows |-> <<>>]

\* runScheme.js: the hierarchy file parsed, [] when it is not named or not uploaded
hierarchyDataJs(sch, files) ==
  LET hierarchyFile == Get(sch, "creditHierarchyFile") IN
    IF ~Falsy(hierarchyFile) /\ Has(files, hierarchyFile)
    THEN parseCSV(files[hierarchyFile])
    ELSE <<>>

\* scheme.payoutTiers = [] when the scheme has none
withPayoutTiers(sch) ==
  IF Has(sch, "payoutTiers") THEN sch
  ELSE [k \in DOMAIN sch \cup {"payoutTiers"} |->
          IF k = "payoutTiers" THEN <<>> ELSE sch[k]]

\* the constants of a run of index.ts once its inputs are accepted
LocalsOf(sch, files, asOfDate) ==
  [baseData |-> files[sch.baseMapping.sourceFile].data.items,
   baseDataFile |-> sch.baseMapping.sourceFile,
   txnIdField |-> sch.baseMapping.txnID,
   hierarchyData |-> hierarchyDataOf(sch, files),
   runDate |-> parseDate(asOfDate),
   schemeStart |-> parseDate(sch.effectiveFrom),
   fieldMap |-> BuildFieldMap(sch),
   records |-> <<>>, queue |-> <<>>]

\* the constants of a run of runScheme.js
LocalsJs(sch, files, asOfDate) ==
  [baseData |-> parseCSV(files[sch.baseMapping.sourceFile]),
   hierarchyData |-> hierarchyDataJs(sch, files),
   runDate |-> parseDateJs(asOfDate),
   schemeStart |-> parseDateJs(Get(sch, "effectiveFrom")),
   records |-> <<>>, queue |-> <<>>]

Init ==
  /\ page = PageIdle
  /\ tierCall = TierIdle
  /\ mgrCall = MgrIdle
  /\ condCall = CondIdle
  /\ \E s \in Scenarios :
       /\ call = [impl |-> s.impl, uploadedFiles |-> s.uploadedFiles,
                  runAsOfDate |-> s.runAsOfDate]
       /\ scheme = s.scheme
  /\ pc = "start"
  /\ runNo = 1
  /\ locals = NoLocals
  /\ result = EmptyResult
  /\ error = "none"
  /\ firstRun = NoRun

\* the validation and the loading of the inputs
Validate ==
  /\ pc = "start"
  /\ LET fatal == IF call.impl = "ts"
                  THEN FatalCondition(scheme, call.uploadedFiles, call.runAsOfDate)
                  ELSE FatalConditionJs(scheme, call.uploadedFiles, call.runAsOfDate)
     IN IF fatal # "none"
        THEN /\ pc' = "thrown"
             /\ error' = fatal
             /\ UNCHANGED <<scheme, locals>>
        ELSE /\ pc' = "select"
             /\ scheme' = IF call.impl = "ts" THEN withPayoutTiers(scheme) ELSE scheme
             /\ locals' = IF call.impl = "ts"
                          THEN LocalsOf(scheme, call.uploadedFiles, call.runAsOfDate)
                          ELSE LocalsJs(scheme, call.uploadedFiles, call.runAsOfDate)
             /\ UNCHANGED error
  /\ UNCHANGED <<page, tierCall, mgrCall, condCall, call, runNo, result, firstRun>>

\* steps 1 and 2 of index.ts (date filter, Per Record qualification rules), step 1
\* of runScheme.js (date filter)
SelectRecords ==
  /\ pc = "select"
  /\ IF call.impl = "ts"
     THEN LET inRange == dateFilteredRecords(
                           potentiallyRelevantRecords(locals.baseData, locals.baseDataFile),
                           Get(scheme.baseMapping, "transactionDateField"),
                           locals.schemeStart, locals.runDate)
              rules == recordLevelQualRules(scheme, locals.fieldMap)
          IN IF qualificationFilterThrows(inRange, rules, locals.fieldMap)
             THEN /\ pc' = "thrown"
                  /\ error' = "[DecimalError] Invalid argument"
                  /\ UNCHANGED <<locals, result>>
             ELSE /\ pc' = "group"
                  /\ locals' = [locals EXCEPT
                                  !.records = qualifiedRecords(inRange, rules, locals.fieldMap)]
                  /\ UNCHANGED <<error, result>>
     ELSE /\ pc' = "group"
          /\ locals' = [locals EXCEPT
                          !.records = filteredRecords(locals.baseData, scheme,
                                                      locals.schemeStart, locals.runDate)]
          /\ result' = [result EXCEPT
                          !.rawRecordLevelData =
                             DateWarnings(locals.baseData, scheme, Len(locals.baseData))]
          /\ UNCHANGED error
  /\ UNCHANGED <<page, tierCall, mgrCall, condCall, call, scheme, runNo, firstRun>>

\* step 3 of index.ts, step 2 of runScheme.js: the agents in the order the loop
\* over them takes
GroupByAgent ==
  /\ pc = "group"
  /\ pc' = "agents"
  /\ IF call.impl = "ts"
     THEN /\ locals' = [locals EXCEPT
                          !.queue = AgentOrder(locals.records, Len(locals.records),
                                               scheme.baseMapping.agentField)]
          /\ UNCHANGED result
     ELSE /\ locals' = [locals EXCEPT
                          !.queue = AgentDataOrder(locals.records, Len(locals.records),
                                                   Get(scheme.baseMapping, "agentField"))]
          /\ result' = [result EXCEPT
                          !.rawRecordLevelData =
                             @ \o AgentWarnings(locals.records,
                                                Get(scheme.baseMapping, "agentField"))]
  /\ UNCHANGED <<page, tierCall, mgrCall, condCall, call, scheme, runNo, error, firstRun>>

\* one pass of the loop over the agents
ProcessAgent ==
  /\ pc = "agents"
  /\ Len(locals.queue) > 0
  /\ LET agentId == Head(locals.queue) IN
       IF call.impl = "ts"
       THEN \E after \in {processAgent(agentId,
                                       recordsByAgent(locals.records, agentId,
                                                      scheme.baseMapping.agentField),
                                       scheme, locals.fieldMap, locals, result)} :
              IF after.thrown
              THEN /\ pc' = "thrown"
                   /\ error' = "exception in the loop over the agents"
                   /\ UNCHANGED <<locals, result, scheme>>
              ELSE /\ result' = after
                   /\ locals' = [locals EXCEPT !.queue = Tail(@)]
                   /\ UNCHANGED <<pc, error, scheme>>
       ELSE \E after \in {processAgentJs(agentId,
                                         agentDataRecords(locals.records, agentId,
                                                          Get(scheme.baseMapping, "agentField")),
                                         scheme, locals.hierarchyData, locals.runDate,
                                         result)} :
              /\ result' = [k \in DOMAIN result |->
                              IF k = "thrown" THEN FALSE ELSE after[k]]
              /\ scheme' = after.sch
              /\ locals' = [locals EXCEPT !.queue = Tail(@)]
              /\ UNCHANGED <<pc, error>>
  /\ UNCHANGED <<page, tierCall, mgrCall, condCall, call, runNo, firstRun>>

\* return {agentPayouts, ruleHitLogs, creditDistributions, rawRecordLevelData}
Return ==
  /\ pc = "agents"
  /\ Len(locals.queue) = 0
  /\ pc' = "returned"
  /\ UNCHANGED <<page, tierCall, mgrCall, condCall, call, scheme, runNo, locals, result, error, firstRun>>

\* the next run: the same scheme object, files and run date
RunAgain ==
  /\ pc \in {"returned", "thrown"}
  /\ runNo < MaxRuns
  /\ runNo' = runNo + 1
  /\ firstRun' = [pc |-> pc, error |-> error, result |-> result]
  /\ pc' = "start"
  /\ locals' = NoLocals
  /\ result' = EmptyResult
  /\ error' = "none"
  /\ UNCHANGED <<page, tierCall, mgrCall, condCall, call, scheme>>

Next ==
  \/ Validate
  \/ SelectRecords
  \/ GroupByAgent
  \/ ProcessAgent
  \/ Return
  \/ RunAgain

Spec == Init /\ [][Next]_vars

----------------------------------------------------------------------------
(* What the claims about the payout functions say *)

\* the tier list is contiguous and non-overlapping when sorted by from
Contiguous(tiers) ==
  LET sorted == SortTiers(tiers) IN
    /\ \A i \in 1..Len(sorted) : HasTo(sorted[i]) => sorted[i].from <= sorted[i].to
    /\ \A i \in 1..(Len(sorted) - 1) :
         HasTo(sorted[i]) /\ sorted[i].to = sorted[i + 1].from

MinInt(a, b) == IF a <= b THEN a ELSE b

\* one tier's share of a whole amount, in hundredths:
\* max(0, min(amount, to) - from) * rate / 100, or * rate when not a percentage
Share100(amount, tier) ==
  LET upper == IF HasTo(tier) THEN MinInt(amount, tier.to) ELSE amount
      slice == IF upper - tier.from > 0 THEN upper - tier.from ELSE 0
  IN IF tier.isPercentage THEN slice * tier.rate ELSE slice * tier.rate * 100

RECURSIVE SumShares100(_, _, _)
SumShares100(amount, tiers, n) ==
  IF n = 0 THEN 0 ELSE SumShares100(amount, tiers, n - 1) + Share100(amount, tiers[n])

Hundredths(d) == Scaled(d, 2)

\* C2: for a contiguous tier list both payout functions return the sum over the
\* tiers of max(0, min(amount, to) - from) * rate (/100 for percentage tiers), and
\* at amount = tier.to the sum of the full contributions of the tiers up to that one
C2_TierSum ==
  (tierCall.last.applied /\ Contiguous(tierCall.tiers)) =>
    LET amount == tierCall.last.amount.m
        sorted == SortTiers(tierCall.tiers)
        sum == SumShares100(amount, tierCall.tiers, Len(tierCall.tiers))
    IN /\ Hundredths(tierCall.last.ts) = sum
       /\ Hundredths(tierCall.last.js) = sum
       /\ \A i \in 1..Len(sorted) :
            (HasTo(sorted[i]) /\ amount = sorted[i].to) =>
              /\ Hundredths(tierCall.last.ts) = SumShares100(amount, sorted, i)
              /\ Hundredths(tierCall.last.js) = SumShares100(amount, sorted, i)

\* tiers 1000-unbounded at 10% and 0-1000 at 5%, amount 1500: both return 100
C2_Witness ==
  /\ tierCall.tiers = << [id |-> "T", from |-> 1000, rate |-> 10, isPercentage |-> TRUE],
                         [id |-> "T", from |-> 0, to |-> 1000, rate |-> 5, isPercentage |-> TRUE] >>
  /\ tierCall.last.applied
  /\ tierCall.last.amount = Decimal(1500)
  /\ tierCall.last.ts = Decimal(100)
  /\ tierCall.last.js = Decimal(100)

NonNegativeRates(tiers) == \A i \in 1..Len(tiers) : tiers[i].rate >= 0

\* C7: for a contiguous tier list with non-negative rates, a <= b implies
\* calculateMarginalTieredPayout(a) <= calculateMarginalTieredPayout(b)
C7_Monotonic ==
  ( /\ tierCall.prev.applied
    /\ Contiguous(tierCall.tiers)
    /\ NonNegativeRates(tierCall.tiers)
    /\ lte(tierCall.prev.amount, tierCall.last.amount) ) =>
    lte(tierCall.prev.ts, tierCall.last.ts)

\* two tiers, the second at the lower rate: 1000 pays 100 and 2000 pays 150
C7_Witness ==
  /\ tierCall.tiers = << [id |-> "T", from |-> 0, to |-> 1000, rate |-> 10, isPercentage |-> TRUE],
                         [id |-> "T", from |-> 1000, rate |-> 5, isPercentage |-> TRUE] >>
  /\ tierCall.prev.applied
  /\ tierCall.prev.amount = Decimal(1000) /\ tierCall.prev.ts = Decimal(100)
  /\ tierCall.last.amount = Decimal(2000) /\ tierCall.last.ts = Decimal(150)

----------------------------------------------------------------------------
(* What the claims about findManager say *)

MgrApplied == mgrCall.applied /\ "result" \in DOMAIN mgrCall

\* the rows of the agent and level asked for, whatever their window
RowIsFor(row, agentId, level) ==
  /\ toLowerCase(row["AgentID"]) = toLowerCase(agentId)
  /\ toUpperCase(row["Level"]) = toUpperCase(level)

\* C6: a row of the agent and level is returned when reportsFrom <= runAsOfDate <=
\* reportsToEnd and is not returned when runAsOfDate is later than reportsToEnd,
\* whatever schemeEffectiveFrom is: the result is the manager of the first row
\* whose window holds the run date, and null when there is none
C6_ValidOnRunDate ==
  MgrApplied =>
    LET rows == mgrCall.hierarchyData
        valid == { i \in 1..Len(rows) :
                     /\ RowIsFor(rows[i], mgrCall.agentId, mgrCall.level)
                     /\ parseDate(rows[i]["ReportsFrom"]) # NoDate
                     /\ parseDate(rows[i]["ReportsToEnd"]) # NoDate
                     /\ parseDate(rows[i]["ReportsFrom"]) <= mgrCall.runAsDate
                     /\ mgrCall.runAsDate <= parseDate(rows[i]["ReportsToEnd"]) }
    IN IF valid = {} THEN mgrCall.result = Null
       ELSE mgrCall.result = rows[CHOOSE i \in valid : \A j \in valid : i <= j]["ManagerID"]

----------------------------------------------------------------------------
(* What the claims about runs of runScheme say *)

\* the rows of the base file as uploaded, when the file is there
InputRows ==
  IF ~Has(call.uploadedFiles, "sales.csv") THEN <<>>
  ELSE IF call.impl = "ts"
  THEN IF Has(call.uploadedFiles["sales.csv"], "data")
       THEN call.uploadedFiles["sales.csv"].data.items ELSE <<>>
  ELSE LET csv == call.uploadedFiles["sales.csv"]
       IN [i \in 1..Len(csv.lines) |-> RowObject(csv.headers, csv.lines[i])]

\* the rows dated within [effectiveFrom, runAsOfDate]
RowsInPeriod ==
  LET Dated(row) ==
        /\ "Date" \in DOMAIN row
        /\ parseDate(row["Date"]) # NoDate
        /\ parseDate(scheme.effectiveFrom) <= parseDate(row["Date"])
        /\ parseDate(row["Date"]) <= parseDate(call.runAsOfDate)
  IN SelectSeq(InputRows, Dated)

RECURSIVE SumOfAmounts(_, _, _)
SumOfAmounts(rows, n, agent) ==
  IF n = 0 THEN 0
  ELSE SumOfAmounts(rows, n - 1, agent)
         + (IF rows[n]["Rep"] = agent THEN NewDecimal(rows[n]["Net"]).m ELSE 0)

\* an amount of hundredths written with two decimals
Money(hundredths) ==
  ToString(hundredths \div 100) \o "." \o ToString((hundredths % 100) \div 10)
    \o ToString(hundredths % 10)

NoRuleLists ==
  /\ scheme.qualificationRules = <<>> /\ scheme.exclusionRules = <<>>
  /\ scheme.adjustmentRules = <<>> /\ scheme.creditSplits = <<>>
  /\ scheme.customRules = <<>>

\* the amounts of the rows in the period are whole numbers, so that their sum is
\* defined
WholeAmounts ==
  \A n \in 1..Len(RowsInPeriod) :
    /\ Numeric(RowsInPeriod[n]["Net"])
    /\ NewDecimal(RowsInPeriod[n]["Net"]).s = 0

\* every row of the period names its agent
NamedRows ==
  \A n \in 1..Len(RowsInPeriod) :
    "Rep" \in DOMAIN RowsInPeriod[n] /\ RowsInPeriod[n]["Rep"] # ""

AgentsInPeriod == { RowsInPeriod[n]["Rep"] : n \in 1..Len(RowsInPeriod) }

\* the run returned for a scheme that maps the columns of the base file, has an
\* effectiveFrom date and no rules, and rows with an agent and an amount
PlainRunReturned ==
  /\ pc = "returned"
  /\ Has(scheme, "baseMapping") /\ scheme.baseMapping = BaseMapping
  /\ Has(scheme, "effectiveFrom") /\ parseDate(scheme.effectiveFrom) # NoDate
  /\ Has(scheme, "payoutTiers") /\ Contiguous(scheme.payoutTiers)
  /\ NoRuleLists
  /\ NamedRows
  /\ WholeAmounts

PaidByTiers(agent) ==
  /\ Has(result.agentPayouts, agent)
  /\ result.agentPayouts[agent] =
       Money(SumShares100(SumOfAmounts(RowsInPeriod, Len(RowsInPeriod), agent),
                          scheme.payoutTiers, Len(scheme.payoutTiers)))

\* the scheme has no quotaAmount above the sum of the agent's amounts
QuotaMet(agent) ==
  ~Has(scheme, "quotaAmount")
    \/ scheme.quotaAmount <= SumOfAmounts(RowsInPeriod, Len(RowsInPeriod), agent)

C3_ZeroCreditUnqualified ==
  pc = "returned" =>
    \A agent \in DOMAIN result.agentResults :
      lte(result.agentResults[agent].total, Decimal(0)) =>
        /\ result.agentPayouts[agent] = "0.00"
        /\ ~result.agentResults[agent].qualified
        /\ result.agentResults[agent].evaluated = <<>>

\* the records index.ts selected that match an exclusion rule, each with the
\* position of the first rule it matches
ExcludedRecords ==
  IF call.impl = "ts" /\ Has(locals, "records") /\ Has(locals, "fieldMap")
  THEN { n \in 1..Len(locals.records) :
           ExclusionScan(locals.records[n], RuleList(scheme, "exclusionRules"), 1,
                         locals.fieldMap).kind = "hit" }
  ELSE {}

FirstExclusion(n) ==
  RuleList(scheme, "exclusionRules")[
    ExclusionScan(locals.records[n], RuleList(scheme, "exclusionRules"), 1,
                  locals.fieldMap).rule].id

\* the entries of all agents' logs, and of the processed records, for one record
LogEntriesOf(recordId) ==
  { <<agent, k>> \in UNION { {agent} \X (1..Len(result.ruleHitLogs[agent])) :
                               agent \in DOMAIN result.ruleHitLogs } :
      Get(result.ruleHitLogs[agent][k], "recordId") = recordId }

ProcessedOf(recordId) ==
  { k \in 1..Len(result.rawRecordLevelData) :
      result.rawRecordLevelData[k].recordId = recordId }

\* C4: in index.ts a run with a record that matches an exclusion rule completes; the
\* record's adjusted amount is 0, no adjustment rule is applied to it, and it has
\* exactly one log entry, the Exclusion entry of the first rule it matches
C4_ExcludedRecord ==
  (call.impl = "ts" /\ pc \in {"returned", "thrown"} /\ ExcludedRecords # {}) =>
    /\ pc = "returned"
    /\ \A n \in ExcludedRecords :
         LET recordId == locals.records[n].recordId IN
           /\ \A k \in ProcessedOf(recordId) :
                /\ result.rawRecordLevelData[k].isExcluded
                /\ result.rawRecordLevelData[k].adjustedAmount = "0.00"
                /\ result.rawRecordLevelData[k].adjustmentApplied = Null
           /\ Cardinality(LogEntriesOf(recordId)) = 1
           /\ \A e \in LogEntriesOf(recordId) :
                /\ result.ruleHitLogs[e[1]][e[2]].ruleType = "Exclusion"
                /\ result.ruleHitLogs[e[1]][e[2]].ruleId = FirstExclusion(n)

\* the rows of the hierarchy file as uploaded
HierarchyInput ==
  IF ~Has(call.uploadedFiles, "hier.csv") THEN <<>>
  ELSE IF call.impl = "ts" THEN call.uploadedFiles["hier.csv"].data.items
  ELSE LET csv == call.uploadedFiles["hier.csv"]
       IN [i \in 1..Len(csv.lines) |-> RowObject(csv.headers, csv.lines[i])]

\* the split resolves to manager: the agent has rows in the hierarchy file, and all
\* of them are rows of the split's role whose window holds the scheme's period and
\* the run date and that name the manager
ResolvesTo(agent, split, manager) ==
  LET mine == { i \in 1..Len(HierarchyInput) : HierarchyInput[i]["AgentID"] = agent }
  IN /\ split.role = "L2"
     /\ mine # {}
     /\ \A i \in mine :
          /\ HierarchyInput[i]["Level"] = split.role
          /\ HierarchyInput[i]["ManagerID"] = manager
          /\ parseDate(HierarchyInput[i]["ReportsFrom"]) # NoDate
          /\ parseDate(HierarchyInput[i]["ReportsToEnd"]) # NoDate
          /\ parseDate(HierarchyInput[i]["ReportsFrom"]) <= parseDate(scheme.effectiveFrom)
          /\ parseDate(call.runAsOfDate) <= parseDate(HierarchyInput[i]["ReportsToEnd"])

LedgerOf(agent) ==
  IF Has(result.creditDistributions, agent) THEN result.creditDistributions[agent]
  ELSE <<>>

\* the distribution records of a ledger from an agent with an amount
RecordsFrom(ledger, agent, amount) ==
  { k \in 1..Len(ledger) :
      Get(ledger[k], "fromAgent") = agent /\ Get(ledger[k], "amount") = amount }

Managers == {"M", "N", "P"}

\* C5: for a qualified agent A with base payout P > 0 and a split (role, pct) that
\* resolves to manager M, one record of amount P * pct / 100 is in
\* creditDistributions[M] and none is in creditDistributions[A]
C5_ManagerLedger ==
  pc = "returned" =>
    \A agent \in DOMAIN result.agentResults :
      \A s \in 1..Len(scheme.creditSplits) :
        \A manager \in Managers :
          LET split == scheme.creditSplits[s]
              P == result.agentResults[agent].payout
              amount == Money((Scaled(P, 2) * split.percentage) \div 100)
          IN ( /\ result.agentResults[agent].qualified
               /\ gt(P, Decimal(0))
               /\ split.percentage > 0
               /\ ResolvesTo(agent, split, manager) ) =>
               /\ Cardinality(RecordsFrom(LedgerOf(manager), agent, amount)) = 1
               /\ RecordsFrom(LedgerOf(agent), agent, amount) = {}

\* baseMapping or one of its sourceFile, agentField, amountField, txnID is missing
MappingMissing ==
  \/ "baseMapping" \notin DOMAIN scheme
  \/ \E f \in {"sourceFile", "agentField", "amountField", "txnID"} :
       f \notin DOMAIN scheme.baseMapping \/ scheme.baseMapping[f] = ""

\* the base file is absent from uploadedFiles or its data is not an array
BaseFileUnusable ==
  LET f == scheme.baseMapping.sourceFile IN
    \/ f \notin DOMAIN call.uploadedFiles
    \/ "data" \notin DOMAIN call.uploadedFiles[f]
    \/ ~call.uploadedFiles[f].data.isArray

\* the base file has no first row with the transaction-id column
TxnColumnAbsent ==
  LET rows == call.uploadedFiles[scheme.baseMapping.sourceFile].data.items IN
    rows = <<>> \/ scheme.baseMapping.txnID \notin DOMAIN rows[1]

\* effectiveFrom or runAsOfDate does not parse as a date
DatesUnparseable ==
  \/ "effectiveFrom" \notin DOMAIN scheme
  \/ scheme.effectiveFrom \notin {Calendar[i] : i \in 1..Len(Calendar)}
  \/ call.runAsOfDate \notin {Calendar[i] : i \in 1..Len(Calendar)}

FatalCase ==
  \/ MappingMissing
  \/ (~MappingMissing /\ BaseFileUnusable)
  \/ (~MappingMissing /\ ~BaseFileUnusable /\ TxnColumnAbsent)
  \/ DatesUnparseable

ValidationErrors ==
  { "Scheme is missing essential baseMapping configuration.",
    "Base data file not found in uploadedFiles or data is not an array.",
    "Missing column required as txnID in input file.",
    "Invalid runAsOfDate or scheme.effectiveFrom date format. Use YYYY-MM-DD." }

\* C8: in each fatal case (mapping incomplete, base file absent or not an array,
\* transaction-id column absent from the first row, effectiveFrom or runAsOfDate
\* unparseable) index.ts runScheme throws one error and produces no result
C8_FatalThrows ==
  (call.impl = "ts" /\ pc # "start" /\ FatalCase) =>
    /\ pc = "thrown"
    /\ error \in ValidationErrors
    /\ result = EmptyResult

\* a base file whose rows have no Txn column: the run threw for the missing column
C8_Witness ==
  /\ call.impl = "ts" /\ pc = "thrown"
  /\ ~MappingMissing /\ ~BaseFileUnusable /\ ~DatesUnparseable
  /\ InputRows # <<>> /\ "Txn" \notin DOMAIN InputRows[1]
  /\ error = "Missing column required as txnID in input file."

\* C9: when no fatal case holds, index.ts runScheme does not throw: it returns
\* {agentPayouts, ruleHitLogs, creditDistributions, rawRecordLevelData}
C9_ReturnsUnlessFatal ==
  (call.impl = "ts" /\ pc \in {"returned", "thrown"} /\ ~FatalCase) =>
    /\ pc = "returned"
    /\ {"agentPayouts", "ruleHitLogs", "creditDistributions", "rawRecordLevelData"}
         \subseteq DOMAIN result

\* C10: a second run with the same scheme object, files and run date gives the
\* agentPayouts and the credit distributions of the first
C10_SecondRunSame ==
  (runNo > 1 /\ pc \in {"returned", "thrown"} /\ firstRun.pc = "returned") =>
    /\ pc = "returned"
    /\ result.agentPayouts = firstRun.result.agentPayouts
    /\ result.creditDistributions = firstRun.result.creditDistributions

----------------------------------------------------------------------------
(* What the claims about the agents of a run say *)

\* what runScheme.js gives one agent when it processes it with the scheme object sch
OutcomeJs(agent, sch) ==
  LET Of(after) == [qualified |-> after.agentResults[agent].qualified,
                    payout |-> after.agentPayouts[agent]]
  IN Of(processAgentJs(agent,
                       agentDataRecords(locals.records, agent,
                                        Get(scheme.baseMapping, "agentField")),
                       sch, locals.hierarchyData, locals.runDate, EmptyResult))

\* a pass of the loop of runScheme.js over the agents leaves the qualification
\* outcome and the payout of every agent still to be processed as they were
ProcessAgentLeavesOthers ==
  (call.impl = "js" /\ pc = "agents" /\ pc' = "agents" /\ Len(locals.queue) > 0) =>
    \A n \in 2..Len(locals.queue) :
      OutcomeJs(locals.queue[n], scheme') = OutcomeJs(locals.queue[n], scheme)

\* C11: in runScheme.js the qualification outcome and the agentPayouts entry of an
\* agent do not depend on the agents processed before it
C11_AgentsIndependent == [][ProcessAgentLeavesOthers]_vars

----------------------------------------------------------------------------
(* What the claims about the records of index.ts say *)

\* index.ts went past its validation with a scheme that maps the base file
TsRunEnded ==
  /\ call.impl = "ts" /\ pc \in {"returned", "thrown"}
  /\ ~FatalCase
  /\ scheme.baseMapping = BaseMapping

\* the rows of the period whose amount does not parse as a decimal
UnparsedRows ==
  { n \in 1..Len(RowsInPeriod) : ~Numeric(RowsInPeriod[n]["Net"]) }

\* the sum of the amounts that parse, over the first n rows of the agent
RECURSIVE SumOfParsed(_, _, _)
SumOfParsed(rows, n, agent) ==
  IF n = 0 THEN 0
  ELSE SumOfParsed(rows, n - 1, agent)
         + (IF rows[n]["Rep"] = agent /\ Numeric(rows[n]["Net"])
            THEN NewDecimal(rows[n]["Net"]).m ELSE 0)

\* the log entries of the result: those of ruleHitLogs and of rawRecordLevelData
ResultLogEntries ==
  { result.rawRecordLevelData[n] : n \in 1..Len(result.rawRecordLevelData) }
    \cup UNION { { result.ruleHitLogs[a][n] : n \in 1..Len(result.ruleHitLogs[a]) } :
                 a \in DOMAIN result.ruleHitLogs }

\* C12: index.ts runScheme excludes a record whose amount does not parse with a
\* DataError log entry, counts it as zero in the totals, and goes on to return
C12_UnparsedAmountExcluded ==
  (TsRunEnded /\ NoRuleLists /\ UnparsedRows # {}) =>
    /\ pc = "returned"
    /\ \E e \in ResultLogEntries : "ruleType" \in DOMAIN e /\ e.ruleType = "DataError"
    /\ \A agent \in AgentsInPeriod :
         Has(result.agentPayouts, agent) =>
           result.agentPayouts[agent] =
             Money(SumShares100(SumOfParsed(RowsInPeriod, Len(RowsInPeriod), agent),
                                scheme.payoutTiers, Len(scheme.payoutTiers)))

----------------------------------------------------------------------------
(* What the claims about evaluateCondition say *)

CondApplied == condCall.applied /\ "outcome" \in DOMAIN condCall

\* the value is there and does not parse as a decimal
Unparseable(v) == ~Falsy(v) /\ ~Numeric(v)

\* C13: evaluateCondition with dataType Number does not throw, and returns false
\* when the record value or the rule value does not parse as a decimal
C13_NumberNeverThrows ==
  (CondApplied /\ condCall.dataType = "Number") =>
    /\ condCall.outcome # "throws"
    /\ (Unparseable(condCall.recordValue) \/ Unparseable(condCall.ruleValue)) =>
         condCall.outcome = "false"

----------------------------------------------------------------------------
(* What the claims about the adjustment rules of index.ts say *)

\* the records index.ts selected, once the run got that far
SelectedRecords ==
  IF call.impl = "ts" /\ Has(locals, "records") THEN locals.records ELSE <<>>

\* the condition of an adjustment rule holds on the record; the conditions of the
\* rules drawn are on the field Category, column Cat, a String
ConditionMatches(rule, record) ==
  evaluateCondition(safeGet(record.row, "Cat", Undefined), rule.condition.operator,
                    rule.condition.value, "String")

\* the adjustment rules that match the record
MatchingAdjustments(record) ==
  { k \in 1..Len(RuleList(scheme, "adjustmentRules")) :
      ConditionMatches(scheme.adjustmentRules[k], record) }

IsRateFixed(rule) == rule.adjustment.target = "Rate" /\ rule.adjustment.type = "fixed"

\* currentAmount and rateMultiplier after the first n rules, each matching rule
\* working on the values the rules before it left
RECURSIVE AdjustedInOrder(_, _, _)
AdjustedInOrder(rules, n, record) ==
  IF n = 0
  THEN [currentAmount |-> NewDecimal(safeGet(record.row, "Net", "0")),
        rateMultiplier |-> Decimal(1)]
  ELSE LET value == Decimal(rules[n].adjustment.value)
           target == rules[n].adjustment.target
           type == rules[n].adjustment.type
           Apply(before) ==
             IF ~ConditionMatches(rules[n], record) THEN before
             ELSE IF target = "Amount" /\ type = "percentage"
             THEN [before EXCEPT !.currentAmount =
                                    plus(@, dividedBy100(times(@, value)))]
             ELSE IF target = "Amount" /\ type = "fixed"
             THEN [before EXCEPT !.currentAmount = plus(@, value)]
             ELSE IF target = "Rate" /\ type = "percentage"
             THEN [before EXCEPT !.rateMultiplier = times(@, dividedBy100(value))]
             ELSE IF target = "Rate" /\ type = "fixed"
             THEN [before EXCEPT !.rateMultiplier = times(@, value)]
             ELSE before
       IN Apply(AdjustedInOrder(rules, n - 1, record))

\* currentAmount * rateMultiplier of the record, with two decimals
AdjustedAmountOf(record) ==
  LET Product(after) == formatDecimal(times(after.currentAmount, after.rateMultiplier), 2)
  IN Product(AdjustedInOrder(RuleList(scheme, "adjustmentRules"),
                             Len(RuleList(scheme, "adjustmentRules")), record))

\* index.ts ended a run without exclusion and qualification rules on records with
\* numeric amounts
AdjustmentRunEnded ==
  /\ TsRunEnded
  /\ scheme.exclusionRules = <<>> /\ scheme.qualificationRules = <<>>
  /\ \A n \in 1..Len(SelectedRecords) :
       Numeric(safeGet(SelectedRecords[n].row, "Net", "0"))

\* every selected record is in rawRecordLevelData with the adjusted amount
AdjustedAsDeclared ==
  /\ pc = "returned"
  /\ \A n \in 1..Len(SelectedRecords) :
       /\ ProcessedOf(SelectedRecords[n].recordId) # {}
       /\ \A k \in ProcessedOf(SelectedRecords[n].recordId) :
            result.rawRecordLevelData[k].adjustedAmount = AdjustedAmountOf(SelectedRecords[n])

\* C14: index.ts applies the matching adjustment rules (Amount/percentage,
\* Amount/fixed, Rate/percentage) in declared order to the running currentAmount and
\* rateMultiplier, and the record's adjusted amount is currentAmount * rateMultiplier
C14_AdjustmentsInOrder ==
  ( /\ AdjustmentRunEnded
    /\ \E n \in 1..Len(SelectedRecords) : MatchingAdjustments(SelectedRecords[n]) # {}
    /\ \A n \in 1..Len(SelectedRecords) :
         \A k \in MatchingAdjustments(SelectedRecords[n]) :
           ~IsRateFixed(scheme.adjustmentRules[k]) ) =>
    AdjustedAsDeclared

\* C15: in index.ts a matching adjustment rule with target Rate and type fixed
\* multiplies the rateMultiplier, and so the adjusted amount, of the record by its value
C15_RateFixedMultiplies ==
  ( /\ AdjustmentRunEnded
    /\ \E n \in 1..Len(SelectedRecords) :
         \E k \in MatchingAdjustments(SelectedRecords[n]) :
           IsRateFixed(scheme.adjustmentRules[k]) ) =>
    AdjustedAsDeclared

----------------------------------------------------------------------------
(* What the claims about the qualification rules of index.ts say *)

\* the qualification rules of the scheme on the field named, in declared order
QualificationRulesOn(field) ==
  LET OnField(rule) == rule.field = field
  IN SelectSeq(RuleList(scheme, "qualificationRules"), OnField)

\* a row of the period of the agent satisfies the rule on Category (column Cat)
SomeRowSatisfies(agent, rule) ==
  \E n \in 1..Len(RowsInPeriod) :
    /\ RowsInPeriod[n]["Rep"] = agent
    /\ evaluateCondition(RowsInPeriod[n]["Cat"], rule.operator, rule.value, "String")

\* index.ts returned for a scheme whose only rules are qualification rules on the
\* Per Record field Category
PerRecordRunReturned ==
  /\ call.impl = "ts" /\ pc = "returned"
  /\ scheme.baseMapping = BaseMapping
  /\ scheme.exclusionRules = <<>> /\ scheme.adjustmentRules = <<>>
  /\ scheme.creditSplits = <<>>
  /\ scheme.qualificationRules # <<>>
  /\ QualificationRulesOn("Category") = scheme.qualificationRules
  /\ WholeAmounts

\* C16: in index.ts a qualification rule on a Per Record field is met for an agent
\* iff one of the agent's records satisfies it, and the agent's records that do not
\* satisfy it still count toward the agent's total
C16_PerRecordExistence ==
  PerRecordRunReturned =>
    \A agent \in AgentsInPeriod :
      IF \A k \in 1..Len(scheme.qualificationRules) :
           SomeRowSatisfies(agent, scheme.qualificationRules[k])
      THEN PaidByTiers(agent)
      ELSE Has(result.agentPayouts, agent) => result.agentPayouts[agent] = "0.00"

\* the definition of a qualification field of the scheme
QualificationFieldOf(name) ==
  LET fields == scheme.kpiConfig.qualificationFields
  IN fields[CHOOSE k \in 1..Len(fields) : fields[k].name = name]

\* the agent's rows of the period
RowsOfAgent(agent) ==
  LET OfAgent(row) == row["Rep"] = agent IN SelectSeq(RowsInPeriod, OfAgent)

\* the aggregate of an Agent field over the agent's rows (the Sum fields of the
\* schemes drawn are on the amount column)
AggregateOf(agent, fieldDef) ==
  IF fieldDef.aggregation = "Count" THEN Decimal(Len(RowsOfAgent(agent)))
  ELSE Decimal(SumOfAmounts(RowsInPeriod, Len(RowsInPeriod), agent))

\* the comparison of the rule against the aggregate is true
AggregateRuleHolds(agent, rule) ==
  CompareDecimals(rule.operator, AggregateOf(agent, QualificationFieldOf(rule.field)),
                  NewDecimal(rule.value))

\* the rules of the scheme on Agent fields with aggregation Sum or Count, and those
\* with another aggregation
ComparedRules ==
  { k \in 1..Len(scheme.qualificationRules) :
      QualificationFieldOf(scheme.qualificationRules[k].field).aggregation
        \in {"Sum", "Count"} }

OtherAggregationRules == (1..Len(scheme.qualificationRules)) \ ComparedRules

\* index.ts returned for a scheme whose only rules are qualification rules on Agent
\* fields
AgentRulesRunReturned ==
  /\ call.impl = "ts" /\ pc = "returned"
  /\ scheme.baseMapping = BaseMapping
  /\ scheme.exclusionRules = <<>> /\ scheme.adjustmentRules = <<>>
  /\ scheme.creditSplits = <<>>
  /\ scheme.qualificationRules # <<>>
  /\ \A k \in 1..Len(scheme.qualificationRules) :
       /\ \E f \in 1..Len(scheme.kpiConfig.qualificationFields) :
            scheme.kpiConfig.qualificationFields[f].name = scheme.qualificationRules[k].field
       /\ QualificationFieldOf(scheme.qualificationRules[k].field).evaluationLevel = "Agent"
  /\ WholeAmounts

\* C17: in index.ts a qualification rule on an Agent field is compared against the
\* sum (Sum) or the number (Count) of the agent's records, an agent failing the
\* comparison gets "0.00", and a rule with another aggregation is skipped with an
\* Error log entry
C17_AgentAggregation ==
  AgentRulesRunReturned =>
    \A agent \in AgentsInPeriod :
      /\ IF \A k \in ComparedRules : AggregateRuleHolds(agent, scheme.qualificationRules[k])
         THEN PaidByTiers(agent)
         ELSE Has(result.agentPayouts, agent) /\ result.agentPayouts[agent] = "0.00"
      /\ \A k \in OtherAggregationRules :
           /\ Has(result.ruleHitLogs, agent)
           /\ \E n \in 1..Len(result.ruleHitLogs[agent]) :
                /\ Get(result.ruleHitLogs[agent][n], "ruleId") = scheme.qualificationRules[k].id
                /\ "Error" \in { Get(result.ruleHitLogs[agent][n], "level"),
                                 Get(result.ruleHitLogs[agent][n], "ruleType") }

\* the first rule of the scheme whose comparison is false for the agent, or one past
\* the last rule
FirstFailing(agent) ==
  LET failing == { k \in 1..Len(scheme.qualificationRules) :
                     ~AggregateRuleHolds(agent, scheme.qualificationRules[k]) }
  IN IF failing = {} THEN Len(scheme.qualificationRules) + 1
     ELSE CHOOSE k \in failing : \A j \in failing : k <= j

\* the ids of the rules up to and including the first failing one
IdsUpToFirstFailing(agent) ==
  [k \in 1..MinInt(FirstFailing(agent), Len(scheme.qualificationRules)) |->
     scheme.qualificationRules[k].id]

\* the rule ids of the Qualification entries of the agent's log, in log order
QualificationLogIds(agent) ==
  LET entries == IF Has(result.ruleHitLogs, agent) THEN result.ruleHitLogs[agent] ELSE <<>>
      IsQualification(e) == Get(e, "ruleType") = "Qualification"
      logged == SelectSeq(entries, IsQualification)
  IN [n \in 1..Len(logged) |-> Get(logged[n], "ruleId")]

\* index.ts returned for a scheme whose only rules are qualification rules on the
\* summed amount
SumRulesRunReturned ==
  /\ AgentRulesRunReturned
  /\ ComparedRules = 1..Len(scheme.qualificationRules)
  /\ \A k \in 1..Len(scheme.qualificationRules) :
       QualificationFieldOf(scheme.qualificationRules[k].field).aggregation = "Sum"

\* C18: index.ts evaluates the qualification rules of an agent in declared order and
\* stops at the first that fails; the rules evaluated, passes as well as the failure,
\* each have a Qualification log entry, and no later rule has one
C18_QualificationOrderLogged ==
  SumRulesRunReturned =>
    \A agent \in AgentsInPeriod :
      SumOfAmounts(RowsInPeriod, Len(RowsInPeriod), agent) > 0 =>
        /\ Has(result.agentResults, agent)
        /\ result.agentResults[agent].evaluated = IdsUpToFirstFailing(agent)
        /\ result.agentResults[agent].qualified
             = (FirstFailing(agent) > Len(scheme.qualificationRules))
        /\ QualificationLogIds(agent) = IdsUpToFirstFailing(agent)

\* the order and the halt of C18 without its log entries for the passes
C18_OrderAndHalt ==
  SumRulesRunReturned =>
    \A agent \in AgentsInPeriod :
      SumOfAmounts(RowsInPeriod, Len(RowsInPeriod), agent) > 0 =>
        /\ Has(result.agentResults, agent)
        /\ result.agentResults[agent].evaluated = IdsUpToFirstFailing(agent)
        /\ result.agentResults[agent].qualified
             = (FirstFailing(agent) > Len(scheme.qualificationRules))

----------------------------------------------------------------------------
(* What the claims about the credit splits of deeper roles say *)

\* a run returned whose scheme has credit splits and whose hierarchy file was read
SplitRunReturned ==
  /\ pc = "returned"
  /\ "hierarchyData" \in DOMAIN locals
  /\ Has(scheme, "creditSplits")
  /\ Len(scheme.creditSplits) > 0

\* one lookup in the hierarchy file as the running implementation makes it for an
\* immediate manager
ManagerOf(agent) ==
  IF call.impl = "ts"
  THEN findManager(agent, "L2", locals.hierarchyData.rows, locals.schemeStart,
                   locals.runDate)
  ELSE findManagerJs(locals.hierarchyData, agent, locals.runDate)

\* the agents credited by the splits of the role for the payout of the agent
TargetsOf(agent, role) ==
  IF call.impl = "ts"
  THEN { m \in DOMAIN result.creditDistributions :
           \E k \in 1..Len(result.creditDistributions[m]) :
             /\ result.creditDistributions[m][k].fromAgent = agent
             /\ result.creditDistributions[m][k].role = role }
  ELSE { LedgerOf(agent)[k].toAgent :
           k \in { j \in 1..Len(LedgerOf(agent)) :
                     /\ Has(LedgerOf(agent)[j], "toAgent")
                     /\ LedgerOf(agent)[j].level = role } }

\* the paid agents of the run
PaidAgents ==
  { agent \in DOMAIN result.agentPayouts : result.agentPayouts[agent] # "0.00" }

HasSplit(role) ==
  \E s \in 1..Len(scheme.creditSplits) :
    scheme.creditSplits[s].role = role /\ scheme.creditSplits[s].percentage > 0

\* the L3 split of every paid agent goes to the manager of the agent's manager
ChainedL3 ==
  \A agent \in PaidAgents :
    HasSplit("L3") =>
      TargetsOf(agent, "L3")
        = (IF ManagerOf(ManagerOf(agent)) = Null THEN {}
           ELSE {ManagerOf(ManagerOf(agent))})

\* C19: in both implementations the L3 split of an agent is credited to the manager
\* of the agent's immediate manager, found by a second lookup seeded at that manager
C19_ChainedLookup ==
  SplitRunReturned => ChainedL3

\* the chaining of C19 in runScheme.js alone
C19_ChainedLookupJs ==
  (SplitRunReturned /\ call.impl = "js") => ChainedL3

\* scheme.creditSplits without the split at position f
SplitsWithout(f) ==
  [n \in 1..(Len(scheme.creditSplits) - 1) |->
     IF n < f THEN scheme.creditSplits[n] ELSE scheme.creditSplits[n + 1]]

\* the ledger runScheme.js writes for the agent when the split at f is not declared
LedgerWithout(agent, f) ==
  CreditSplitLoopJs(SplitsWithout(f), 1, agent, result.agentResults[agent].payout,
                    locals.hierarchyData, locals.runDate,
                    [currentAgentForLookup |-> agent, level |-> 1,
                     entries |-> <<>>]).entries

\* the targets and amounts credited for the role in a ledger of runScheme.js
CreditsIn(entries, role) ==
  { << entries[k].toAgent, entries[k].amount >> :
      k \in { j \in 1..Len(entries) :
                Has(entries[j], "toAgent") /\ entries[j].level = role } }

\* the splits of the agent whose walk up the hierarchy logged a Warning
FailedSplits(agent) ==
  { f \in 1..Len(scheme.creditSplits) :
      \E k \in 1..Len(LedgerOf(agent)) :
        /\ LedgerOf(agent)[k].level = "Warning"
        /\ LedgerOf(agent)[k].targetRole = scheme.creditSplits[f].role }

\* runScheme.js returned with credit splits distributed
SplitRunReturnedJs ==
  SplitRunReturned /\ call.impl = "js"

\* C20: in runScheme.js a split whose manager lookup fails is the only split
\* aborted: every other split of the agent is credited to the same target with the
\* same amount as when the failing split is not declared
C20_FailedSplitIsolated ==
  SplitRunReturnedJs =>
    \A agent \in PaidAgents :
      \A f \in FailedSplits(agent) :
        \A s \in 1..Len(scheme.creditSplits) :
          s # f =>
            CreditsIn(LedgerOf(agent), scheme.creditSplits[s].role)
              = CreditsIn(LedgerWithout(agent, f), scheme.creditSplits[s].role)

----------------------------------------------------------------------------
(* What the claims about findManager of index.ts say *)

\* equality of two strings whatever their case
SameIgnoringCase(a, b) == toLowerCase(a) = toLowerCase(b)

\* the calendar days, and the place of a day among them
Days == { Calendar[i] : i \in 1..Len(Calendar) }

DateRank == [day \in Days |-> CHOOSE i \in 1..Len(Calendar) : Calendar[i] = day]

\* the rows of the call that are of the agent and level asked for and whose window
\* overlaps [schemeEffectiveFrom, runAsDate]
OverlappingRows ==
  { i \in 1..Len(mgrCall.hierarchyData) :
      LET row == mgrCall.hierarchyData[i] IN
        /\ SameIgnoringCase(row["AgentID"], mgrCall.agentId)
        /\ SameIgnoringCase(row["Level"], mgrCall.level)
        /\ row["ReportsFrom"] \in DOMAIN DateRank
        /\ row["ReportsToEnd"] \in DOMAIN DateRank
        /\ DateRank[row["ReportsFrom"]] <= mgrCall.runAsDate
        /\ DateRank[row["ReportsToEnd"]] >= mgrCall.schemeEffectiveFrom }

\* C21: findManager of index.ts returns the ManagerID of the first row in input
\* order of the agent and level, compared without case, whose window has
\* reportsFrom <= runAsOfDate and reportsToEnd >= schemeEffectiveFrom; it returns
\* null when there is no such row, and a row with an unparseable date never matches
C21_FirstOverlappingRow ==
  MgrApplied =>
    IF OverlappingRows = {} THEN mgrCall.result = Null
    ELSE mgrCall.result
           = mgrCall.hierarchyData[CHOOSE i \in OverlappingRows :
                                     \A j \in OverlappingRows : i <= j]["ManagerID"]

\* a call answered by its second row, of another case than the arguments, after a
\* first row of the agent and level whose end date does not parse
C21_Witness ==
  /\ MgrApplied
  /\ Len(mgrCall.hierarchyData) = 2
  /\ mgrCall.hierarchyData[1]["AgentID"] = "A"
  /\ mgrCall.hierarchyData[1]["Level"] = "L2"
  /\ mgrCall.hierarchyData[1]["ReportsToEnd"] = "open"
  /\ mgrCall.hierarchyData[2]["AgentID"] = "a"
  /\ mgrCall.hierarchyData[2]["Level"] = "l2"
  /\ mgrCall.hierarchyData[2]["ManagerID"] = "N"
  /\ mgrCall.result = "N"

----------------------------------------------------------------------------
(* What the claims about the field table of index.ts say *)

\* index.ts built its field table
FieldMapBuilt == call.impl = "ts" /\ "fieldMap" \in DOMAIN locals

\* the entries of the catalog lists in the order baseData, qualificationFields,
\* adjustmentFields, exclusionFields, creditFields
CatalogEntries ==
  LET ListOf(list) == IF Has(scheme, "kpiConfig") /\ Has(scheme.kpiConfig, list)
                      THEN scheme.kpiConfig[list] ELSE <<>>
  IN ListOf("baseData") \o ListOf("qualificationFields") \o ListOf("adjustmentFields")
       \o ListOf("exclusionFields") \o ListOf("creditFields")

\* the mapping an entry stands for: its column and its type, level and aggregation,
\* String, Per Record and NotApplicable when it leaves them out
MappingOf(entry) ==
  LET Or(property, default) ==
        IF Has(entry, property) /\ entry[property] # "" THEN entry[property] ELSE default
  IN [sourceField |-> Or("sourceField", Undefined), dataType |-> Or("dataType", "String"),
      evaluationLevel |-> Or("evaluationLevel", "Per Record"),
      aggregation |-> Or("aggregation", "NotApplicable")]

\* the last of the positions
LastOf(positions) == CHOOSE k \in positions : \A j \in positions : j <= k

\* the table maps every name of the entries at the positions to the mapping of the
\* last of them with that name
MapsLastOf(positions) ==
  \A k \in positions :
    /\ Has(locals.fieldMap, CatalogEntries[k].name)
    /\ locals.fieldMap[CatalogEntries[k].name]
         = MappingOf(CatalogEntries[LastOf({ j \in positions :
                                               CatalogEntries[j].name
                                                 = CatalogEntries[k].name })])

\* the agent-identifier and the amount field resolve, to the columns of the base
\* mapping when the catalog does not name them
ImplicitFieldsResolve ==
  /\ Has(locals.fieldMap, "Agent")
  /\ Has(locals.fieldMap, "Amount")
  /\ (\A k \in 1..Len(CatalogEntries) : CatalogEntries[k].name \notin {"Agent", "Amount"})
       => /\ locals.fieldMap["Agent"]
               = [sourceField |-> scheme.baseMapping.agentField, dataType |-> "String",
                  evaluationLevel |-> "Per Record", aggregation |-> "NotApplicable"]
          /\ locals.fieldMap["Amount"]
               = [sourceField |-> scheme.baseMapping.amountField, dataType |-> "Number",
                  evaluationLevel |-> "Per Record", aggregation |-> "NotApplicable"]

EntriesOfBaseFile ==
  { k \in 1..Len(CatalogEntries) :
      /\ Has(CatalogEntries[k], "sourceField")
      /\ CatalogEntries[k].sourceField # ""
      /\ CatalogEntries[k].sourceFile = scheme.baseMapping.sourceFile }

----------------------------------------------------------------------------
(* What the claims about rules on unresolved fields say *)

\* the loop of index.ts over the agents of the queue with another scheme
RECURSIVE AgentsLoopWith(_, _, _, _)
AgentsLoopWith(sch, ctx, queue, out) ==
  IF queue = <<>> THEN out
  ELSE LET Next1(after) ==
             IF after.thrown THEN after
             ELSE AgentsLoopWith(sch, ctx, Tail(queue), after)
       IN Next1(processAgent(Head(queue),
                             recordsByAgent(ctx.records, Head(queue),
                                            sch.baseMapping.agentField),
                             sch, ctx.fieldMap, ctx, out))

\* the run of index.ts on the files and run date of the call with another scheme
RunWith(sch) ==
  LET ctx == LocalsOf(sch, call.uploadedFiles, call.runAsOfDate)
      inRange == dateFilteredRecords(
                   potentiallyRelevantRecords(ctx.baseData, ctx.baseDataFile),
                   Get(sch.baseMapping, "transactionDateField"),
                   ctx.schemeStart, ctx.runDate)
      rules == recordLevelQualRules(sch, ctx.fieldMap)
      Grouped(records) ==
        AgentsLoopWith(sch, [ctx EXCEPT !.records = records],
                       AgentOrder(records, Len(records), sch.baseMapping.agentField),
                       EmptyResult)
  IN IF qualificationFilterThrows(inRange, rules, ctx.fieldMap)
     THEN [EmptyResult EXCEPT !.thrown = TRUE]
     ELSE Grouped(qualifiedRecords(inRange, rules, ctx.fieldMap))

\* the list without its entry at position k
ListWithout(list, k) ==
  [n \in 1..(Len(list) - 1) |-> IF n < k THEN list[n] ELSE list[n + 1]]

\* the rules of the scheme on a field the field table does not resolve, each as the
\* list it is in and its position there
UnresolvedRules ==
  { <<"exclusionRules", k>> :
      k \in { j \in 1..Len(scheme.exclusionRules) :
                ~Has(locals.fieldMap, scheme.exclusionRules[j].field) } }
  \cup { <<"adjustmentRules", k>> :
           k \in { j \in 1..Len(scheme.adjustmentRules) :
                     ~Has(locals.fieldMap, scheme.adjustmentRules[j].condition.field) } }
  \cup { <<"qualificationRules", k>> :
           k \in { j \in 1..Len(scheme.qualificationRules) :
                     ~Has(locals.fieldMap, scheme.qualificationRules[j].field) } }

\* the scheme without the rule
SchemeWithoutRule(r) == [scheme EXCEPT ![r[1]] = ListWithout(@, r[2])]

\* index.ts ended a run whose inputs it accepted
TsRunDone ==
  /\ call.impl = "ts"
  /\ pc \in {"returned", "thrown"}
  /\ "fieldMap" \in DOMAIN locals
  /\ Has(scheme, "exclusionRules")
  /\ Has(scheme, "adjustmentRules")
  /\ Has(scheme, "qualificationRules")

\* C23: in index.ts a rule on a field that does not resolve is skipped and does not
\* abort the run: the run ends as the run of the scheme without the rule ends, with
\* the same agentPayouts and creditDistributions
C23_UnresolvedRuleSkipped ==
  TsRunDone =>
    \A r \in UnresolvedRules :
      /\ (pc = "thrown") = RunWith(SchemeWithoutRule(r)).thrown
      /\ pc = "returned" =>
           /\ result.agentPayouts = RunWith(SchemeWithoutRule(r)).agentPayouts
           /\ result.creditDistributions
                = RunWith(SchemeWithoutRule(r)).creditDistributions

\* a run returned with payouts and a credit distribution although its scheme has an
\* exclusion, an adjustment and a qualification rule on an unresolved field
C23_Witness ==
  /\ TsRunDone
  /\ pc = "returned"
  /\ \A list \in {"exclusionRules", "adjustmentRules", "qualificationRules"} :
       \E r \in UnresolvedRules : r[1] = list
  /\ Len(scheme.qualificationRules) = 2
  /\ Has(result.agentPayouts, "A")
  /\ result.agentPayouts["A"] # "0.00"
  /\ Has(result.creditDistributions, "M")

----------------------------------------------------------------------------
(* What the claims about the rows index.ts selects say *)

\* index.ts returned for a scheme on the columns of the base file without
\* qualification rules
UnfilteredRunReturned ==
  /\ call.impl = "ts"
  /\ pc = "returned"
  /\ Has(scheme, "baseMapping") /\ scheme.baseMapping = BaseMapping
  /\ Has(scheme, "qualificationRules") /\ scheme.qualificationRules = <<>>
  /\ Has(scheme, "effectiveFrom") /\ scheme.effectiveFrom \in Days
  /\ call.runAsOfDate \in Days

\* the row has a transaction date that parses and lies in the period, both ends
\* included
DatedInPeriod(row) ==
  /\ "Date" \in DOMAIN row
  /\ row["Date"] \in Days
  /\ DateRank[scheme.effectiveFrom] <= DateRank[row["Date"]]
  /\ DateRank[row["Date"]] <= DateRank[call.runAsOfDate]

\* the id index.ts gives to the row at position i of the base file
RecordIdOf(i) == "sales.csv-" \o ToString(i - 1)

UndatedRows ==
  { i \in 1..Len(InputRows) :
      "Date" \notin DOMAIN InputRows[i] \/ InputRows[i]["Date"] \notin Days }

\* the rows of the period without an agent identifier
AgentlessRows ==
  { i \in 1..Len(InputRows) :
      /\ DatedInPeriod(InputRows[i])
      /\ ("Rep" \notin DOMAIN InputRows[i] \/ InputRows[i]["Rep"] = "") }

\* the Warning entries of the returned result, in rawRecordLevelData and in the logs
\* of the agents
WarningEntries ==
  { <<"rawRecordLevelData", k>> :
      k \in { j \in 1..Len(result.rawRecordLevelData) :
                Get(result.rawRecordLevelData[j], "level") = "Warning" } }
  \cup UNION { { <<agent, k>> :
                   k \in { j \in 1..Len(result.ruleHitLogs[agent]) :
                             Get(result.ruleHitLogs[agent][j], "level") = "Warning" } } :
               agent \in DOMAIN result.ruleHitLogs }

\* the agents named by the rows of the period
NamedAgents ==
  { InputRows[i]["Rep"] :
      i \in { j \in 1..Len(InputRows) : DatedInPeriod(InputRows[j]) } \ AgentlessRows }

\* C25: index.ts discards no row silently: each row dropped for a missing or
\* unparseable transaction date and each row without agent identifier has a Warning
\* entry in the returned result, and a row without agent identifier adds to no
\* agent's payout
C25_DroppedRowsLogged ==
  UnfilteredRunReturned =>
    /\ Cardinality(WarningEntries) >= Cardinality(UndatedRows \cup AgentlessRows)
    /\ DOMAIN result.agentPayouts \subseteq NamedAgents

----------------------------------------------------------------------------
(* What the claims about the operators of evaluateCondition say *)

\* C26: evaluateCondition of index.ts on a null or undefined record value returns
\* true iff the operator is = and the rule value is null, undefined or the empty
\* string, whatever the data type, and false for every other operator and value
C26_NullRecordValue ==
  (CondApplied /\ condCall.recordValue \in {Null, Undefined}) =>
    condCall.outcome
      = (IF condCall.operator = "=" /\ condCall.ruleValue \in {Null, Undefined, ""}
         THEN "true" ELSE "false")

\* a call on an undefined record value of a Number field with = and an empty rule
\* value, answered true
C26_Witness ==
  /\ CondApplied
  /\ condCall.recordValue = Undefined
  /\ condCall.dataType = "Number"
  /\ condCall.operator = "="
  /\ condCall.ruleValue = ""
  /\ condCall.outcome = "true"

\* a string as evaluateCondition compares it: trimmed, in lower case
Canonical(v) == toLowerCase(trim(v))

\* the members of a delimited rule value
MembersOf(v) == IF v = "x,y" THEN {"x", "y"} ELSE {v}

StringOperators ==
  {"=", "!=", "CONTAINS", "NOT CONTAINS", "STARTSWITH", "ENDSWITH", "IN", "NOT IN"}

\* what a String operator says of a record value and a rule value
StringOperatorHolds(operator, recordValue, ruleValue) ==
  CASE operator = "=" -> Canonical(recordValue) = Canonical(ruleValue)
    [] operator = "!=" -> Canonical(recordValue) # Canonical(ruleValue)
    [] operator = "CONTAINS" -> includes(Canonical(recordValue), Canonical(ruleValue))
    [] operator = "NOT CONTAINS" -> ~includes(Canonical(recordValue), Canonical(ruleValue))
    [] operator = "STARTSWITH" -> startsWith(Canonical(recordValue), Canonical(ruleValue))
    [] operator = "ENDSWITH" -> endsWith(Canonical(recordValue), Canonical(ruleValue))
    [] operator = "IN" ->
         \E member \in MembersOf(Canonical(ruleValue)) :
           Canonical(recordValue) = Canonical(member)
    [] operator = "NOT IN" ->
         \A member \in MembersOf(Canonical(ruleValue)) :
           Canonical(recordValue) # Canonical(member)
    [] OTHER -> FALSE

\* a call on a String field with a record value and a rule value and one of the
\* String operators
StringCall ==
  /\ CondApplied
  /\ condCall.dataType = "String"
  /\ condCall.operator \in StringOperators
  /\ condCall.recordValue \notin {Null, Undefined}
  /\ condCall.ruleValue \notin {Null, Undefined}

\* C27: evaluateCondition of index.ts on a String field compares the trimmed values
\* without case and implements =, !=, CONTAINS, NOT CONTAINS, STARTSWITH, ENDSWITH,
\* IN and NOT IN: NOT CONTAINS negates CONTAINS, IN holds iff the record value
\* equals a member of the delimited rule value, NOT IN negates IN
C27_StringOperators ==
  StringCall =>
    condCall.outcome
      = (IF StringOperatorHolds(condCall.operator, condCall.recordValue,
                                condCall.ruleValue)
         THEN "true" ELSE "false")

\* C27 for the operators index.ts has a case for
C27_ImplementedOperators ==
  (StringCall /\ condCall.operator \in {"=", "!=", "CONTAINS", "STARTSWITH", "ENDSWITH"}) =>
    condCall.outcome
      = (IF StringOperatorHolds(condCall.operator, condCall.recordValue,
                                condCall.ruleValue)
         THEN "true" ELSE "false")

----------------------------------------------------------------------------
(* What the claims about the inputs of a run say *)

\* a step of a run leaves the scheme object and the uploaded files as they are
StepLeavesInputs == scheme' = scheme /\ call' = call

\* C28: a run of either implementation leaves its inputs as they were: no step of
\* runScheme changes the scheme object, with its rules, field definitions and
\* payoutTiers, or a row of the uploaded files
C28_InputsUnchanged == [][StepLeavesInputs]_vars

\* the inputs are left alone by the steps of index.ts on a scheme that has payoutTiers
C28_InputsUnchangedTs ==
  [][(call.impl = "ts" /\ Has(scheme, "payoutTiers")) => StepLeavesInputs]_vars

----------------------------------------------------------------------------
(* What the claims about credit distribution and agentPayouts say *)

\* the scheme without its credit splits and its hierarchy file
SchemeWithoutSplits ==
  [k \in DOMAIN scheme \ {"creditHierarchyFile"} |->
     IF k = "creditSplits" THEN <<>> ELSE scheme[k]]

\* index.ts returned for a scheme with credit splits
TsSplitRunReturned ==
  /\ TsRunDone
  /\ pc = "returned"
  /\ Has(scheme, "creditSplits")
  /\ Len(scheme.creditSplits) > 0
  /\ scheme.baseMapping = BaseMapping

\* the scheme has no rules but its credit splits
OnlySplits ==
  /\ scheme.qualificationRules = <<>> /\ scheme.exclusionRules = <<>>
  /\ scheme.adjustmentRules = <<>> /\ scheme.customRules = <<>>
  /\ ~Has(scheme, "quotaAmount")

\* C29: in index.ts credit distribution does not change agentPayouts: they are those
\* of the scheme without creditSplits and creditHierarchyFile; the entry of the
\* originating agent is its full base payout, what a manager receives is not added
\* to the manager's entry, and a manager without transactions has no entry
C29_SplitsLeavePayouts ==
  TsSplitRunReturned =>
    /\ ~RunWith(SchemeWithoutSplits).thrown
    /\ result.agentPayouts = RunWith(SchemeWithoutSplits).agentPayouts
    /\ DOMAIN result.agentPayouts = AgentsInPeriod
    /\ (OnlySplits /\ WholeAmounts) =>
         \A agent \in AgentsInPeriod :
           SumOfAmounts(RowsInPeriod, Len(RowsInPeriod), agent) > 0 =>
             PaidByTiers(agent)

\* a run in which A distributed 60.00 of its payout of 300.00 to M, a manager with
\* a payout of its own of 100.00
C29_Witness ==
  /\ TsSplitRunReturned
  /\ OnlySplits
  /\ Has(result.agentPayouts, "A") /\ result.agentPayouts["A"] = "300.00"
  /\ Has(result.agentPayouts, "M") /\ result.agentPayouts["M"] = "100.00"
  /\ Has(result.creditDistributions, "M")
  /\ \E k \in 1..Len(result.creditDistributions["M"]) :
       /\ result.creditDistributions["M"][k].fromAgent = "A"
       /\ result.creditDistributions["M"][k].amount = "60.00"

(***************************************************************************)
(* The SchemeExecution page of SchemeExecutionEngine.ts.  page holds the   *)
(* useState values of the component and the position of handleExecute.     *)
(* Every handler runs as one task of the event loop and React renders      *)
(* before the next task, so a handler reads the state of the last task.    *)
(* handleExecute is the one handler that suspends: runScheme is            *)
(* synchronous, `await` of its value resumes the handler in a microtask,   *)
(* and no task of the page runs between the two halves.  page.calls and    *)
(* page.runs count the calls of handleExecute and of runScheme, and        *)
(* page.lastCall keeps what the last call of handleExecute read.           *)
(***************************************************************************)

MaxCalls == 3          \* calls of handleExecute on one page

NullScheme == [name |-> Null]

NullResult == [kind |-> Null]

NullOutcome == [kind |-> Null]

\* scheme files that pass validateSchemeJson (563-648): both dates are ISO
\* dates and effectiveFrom is before effectiveTo
PageSchemes ==
  { [name |-> "Base only", effectiveFrom |-> "2024-01-01",
     effectiveTo |-> "2024-12-31",
     baseMapping |-> [sourceFile |-> "sales.csv"], creditHierarchyFile |-> Undefined],
    [name |-> "With hierarchy", effectiveFrom |-> "2024-01-01",
     effectiveTo |-> "2024-12-31",
     baseMapping |-> [sourceFile |-> "sales.csv"], creditHierarchyFile |-> "hier.csv"] }

\* a data file the upload parsed: its name, and whether its columns hold
\* every required field of that file
PageFiles ==
  { [name |-> "sales.csv", complete |-> TRUE],
    [name |-> "sales.csv", complete |-> FALSE],
    [name |-> "hier.csv", complete |-> TRUE] }

\* the values the run date input delivers
PageDates ==
  {"", "not-a-date", "2023-12-31", "2024-01-01", "2024-06-15", "2024-12-31",
   "2025-01-01"}

\* parseFloat on the payout strings runScheme returns
parseFloat ==
  [p \in {"0.00", "50.00", "100.00"} |->
     CASE p = "0.00" -> 0 [] p = "50.00" -> 50 [] OTHER -> 100]

PagePayouts ==
  { [agent \in {} |-> "0.00"],
    [agent \in {"A"} |-> "100.00"],
    [agent \in {"A", "B"} |-> IF agent = "A" THEN "100.00" ELSE "0.00"],
    [agent \in {"A", "B"} |-> IF agent = "A" THEN "100.00" ELSE "50.00"] }

\* what a call of runScheme does: it returns its result or throws an Error
RunOutcomes ==
  { [kind |-> "returned", agentPayouts |-> payouts, rawRecordLevelData |-> n] :
      payouts \in PagePayouts, n \in {0, 2} }
  \cup
  { [kind |-> "threw", message |-> m] :
      m \in {"Failed to parse base data file sales.csv",
             "Invalid runAsOfDate"} }

\* 505-561 getRequiredFiles: the base file and the credit hierarchy file
getRequiredFiles(sch) ==
  {sch.baseMapping.sourceFile}
  \cup (IF sch.creditHierarchyFile = Undefined THEN {} ELSE {sch.creditHierarchyFile})

\* 756-770 validateColumns: the uploaded files that lack a required column
validateColumns(required, files) ==
  { f.name : f \in { g \in files : g.name \in required /\ ~g.complete } }

\* date-fns parseISO and isValid: the day of an ISO date, NoDate for Invalid Date
parseISO(dateString) ==
  IF \E i \in 1..Len(Calendar) : Calendar[i] = dateString
  THEN CHOOSE i \in 1..Len(Calendar) : Calendar[i] = dateString
  ELSE NoDate

\* date-fns isWithinInterval: both ends belong to the interval
isWithinInterval(date, start, end) == start <= date /\ date <= end

\* 772-793 isReadyToExecute
isReadyToExecute(p) ==
  IF p.selectedScheme = NullScheme \/ p.runAsOfDate = "" THEN FALSE
  ELSE IF ~(\A file \in p.requiredFiles : \E f \in p.uploadedFiles : f.name = file)
  THEN FALSE
  ELSE IF p.missingColumns # {} THEN FALSE
  ELSE IF parseISO(p.runAsOfDate) = NoDate THEN FALSE
  ELSE isWithinInterval(parseISO(p.runAsOfDate),
                        parseISO(p.selectedScheme.effectiveFrom),
                        parseISO(p.selectedScheme.effectiveTo))

\* a guard that leaves the run in flight out
ReturnsEarlyReadyOnly(p) ==
  ~isReadyToExecute(p) \/ p.selectedScheme = NullScheme

\* 796: if (!isReadyToExecute() || isExecuting || !selectedScheme) return
ReturnsEarly(p) ==
  ~isReadyToExecute(p) \/ p.isExecuting \/ p.selectedScheme = NullScheme

RECURSIVE SumOfPayouts(_, _)
\* 819: Object.values(agentPayouts).reduce((sum, p) => sum + parseFloat(p), 0)
SumOfPayouts(payouts, agents) ==
  IF agents = {} THEN 0
  ELSE LET agent == CHOOSE a \in agents : TRUE
       IN  parseFloat[payouts[agent]] + SumOfPayouts(payouts, agents \ {agent})

\* 811-832: the executionResult of a run that returned
SuccessResult(mode, res) ==
  [kind |-> "result", success |-> TRUE,
   message |-> IF mode = "simulation"
               THEN "Scheme executed successfully in simulation mode"
               ELSE "Scheme executed successfully in production mode",
   data |-> [totalRecords |-> res.rawRecordLevelData,
             summary |->
               [totalAgents |-> Cardinality(DOMAIN res.agentPayouts),
                qualified |->
                  Cardinality({ a \in DOMAIN res.agentPayouts :
                                  parseFloat[res.agentPayouts[a]] > 0 }),
                totalPayout |-> SumOfPayouts(res.agentPayouts,
                                             DOMAIN res.agentPayouts)]]]

\* 836-842: the executionResult of a run that threw
FailureResult(message) ==
  [kind |-> "result", success |-> FALSE, message |-> message,
   errors |-> <<message>>]

InitPage ==
  /\ tierCall = TierIdle
  /\ mgrCall = MgrIdle
  /\ condCall = CondIdle
  /\ RunIdle
  /\ page = PageIdle

\* 651-690 handleSchemeUpload, reader.onload of a scheme that validates:
\* resetState (493-503), then the scheme and its required files
SchemeLoaded ==
  /\ page.pc = "idle"
  /\ \E sch \in PageSchemes :
       page' = [page EXCEPT !.selectedScheme = sch,
                            !.requiredFiles = getRequiredFiles(sch),
                            !.uploadedFiles = {},
                            !.missingColumns = {},
                            !.runAsOfDate = "",
                            !.isExecuting = FALSE,
                            !.executionResult = NullResult]
  /\ UNCHANGED <<tierCall, mgrCall, condCall, runVars>>

\* 651-690 handleSchemeUpload, reader.onload of a scheme that does not
\* validate: resetState alone
SchemeRejected ==
  /\ page.pc = "idle"
  /\ page' = [page EXCEPT !.selectedScheme = NullScheme,
                          !.requiredFiles = {},
                          !.uploadedFiles = {},
                          !.missingColumns = {},
                          !.runAsOfDate = "",
                          !.isExecuting = FALSE,
                          !.executionResult = NullResult]
  /\ UNCHANGED <<tierCall, mgrCall, condCall, runVars>>

\* 708-754 handleDataUpload, reader.onload: the file replaces the one of its
\* name, and validateColumns runs over the new files
DataLoaded ==
  /\ page.pc = "idle"
  /\ page.selectedScheme # NullScheme
  /\ \E file \in PageFiles :
       LET newFiles == { f \in page.uploadedFiles : f.name # file.name } \cup {file}
       IN  page' = [page EXCEPT !.uploadedFiles = newFiles,
                                !.missingColumns =
                                   validateColumns(page.requiredFiles, newFiles)]
  /\ UNCHANGED <<tierCall, mgrCall, condCall, runVars>>

\* 1012: onChange of the run date input
SetRunAsOfDate ==
  /\ page.pc = "idle"
  /\ page.selectedScheme # NullScheme
  /\ \E d \in PageDates \ {page.runAsOfDate} :
       page' = [page EXCEPT !.runAsOfDate = d]
  /\ UNCHANGED <<tierCall, mgrCall, condCall, runVars>>

\* 795-808 and 834-846 handleExecute up to its await: the guard, the two
\* setters and the call of runScheme; a throw of runScheme runs catch and
\* finally in the same task
HandleExecute ==
  /\ page.calls < MaxCalls
  /\ \E mode \in {"simulation", "production"} :
       LET seen == [made |-> TRUE, executing |-> page.isExecuting]
       IN  IF ReturnsEarly(page)
           THEN page' = [page EXCEPT !.calls = @ + 1,
                                     !.lastCall = seen]
           ELSE \E outcome \in RunOutcomes :
                  IF outcome.kind = "threw"
                  THEN page' = [page EXCEPT !.calls = @ + 1,
                                            !.runs = @ + 1,
                                            !.lastCall = seen,
                                            !.outcome = outcome,
                                            !.executionResult =
                                               FailureResult(outcome.message),
                                            !.isExecuting = FALSE]
                  ELSE page' = [page EXCEPT !.calls = @ + 1,
                                            !.runs = @ + 1,
                                            !.lastCall = seen,
                                            !.outcome = outcome,
                                            !.mode = mode,
                                            !.executionResult = NullResult,
                                            !.isExecuting = TRUE,
                                            !.pc = "awaiting"]
  /\ UNCHANGED <<tierCall, mgrCall, condCall, runVars>>

\* 808-846 handleExecute after its await: the result is built and stored,
\* and finally clears isExecuting
ResumeExecute ==
  /\ page.pc = "awaiting"
  /\ page' = [page EXCEPT !.executionResult =
                             SuccessResult(page.mode, page.outcome),
                          !.isExecuting = FALSE,
                          !.pc = "idle"]
  /\ UNCHANGED <<tierCall, mgrCall, condCall, runVars>>

NextPage ==
  \/ SchemeLoaded
  \/ SchemeRejected
  \/ DataLoaded
  \/ SetRunAsOfDate
  \/ HandleExecute
  \/ ResumeExecute

SpecPage == InitPage /\ [][NextPage]_vars

\* the microtask that resumes handleExecute after its await always runs
SpecPageFair == SpecPage /\ WF_vars(ResumeExecute)

(***************************************************************************)
(* What the claim about handleExecute of the page says.                    *)
(***************************************************************************)

\* a scheme is selected, every file it requires is uploaded with all its
\* columns, and the run date is a date within [effectiveFrom, effectiveTo]
PageReady ==
  /\ page.selectedScheme # NullScheme
  /\ {page.selectedScheme.baseMapping.sourceFile}
       \subseteq { f.name : f \in page.uploadedFiles }
  /\ page.selectedScheme.creditHierarchyFile # Undefined
       => \E f \in page.uploadedFiles :
            f.name = page.selectedScheme.creditHierarchyFile
  /\ \A f \in page.uploadedFiles : f.complete
  /\ page.runAsOfDate \in Days
  /\ DateRank[page.selectedScheme.effectiveFrom] <= DateRank[page.runAsOfDate]
  /\ DateRank[page.runAsOfDate] <= DateRank[page.selectedScheme.effectiveTo]

\* the step is a call of handleExecute that calls runScheme
StartsRun == page'.runs # page.runs

\* the step is the end of a run: runScheme threw, or the handler resumed
EndsRun ==
  \/ StartsRun /\ page'.outcome.kind = "threw"
  \/ page.pc = "awaiting" /\ page'.pc = "idle"

\* the summary of what runScheme returned
SummaryOf(res) ==
  LET paid == { a \in DOMAIN res.agentPayouts : res.agentPayouts[a] # "0.00" }
      amount(a) == IF res.agentPayouts[a] = "100.00" THEN 100
                   ELSE IF res.agentPayouts[a] = "50.00" THEN 50 ELSE 0
  IN  [totalAgents |-> Cardinality(DOMAIN res.agentPayouts),
       qualified |-> Cardinality(paid),
       totalPayout |-> IF paid = {} THEN 0
                       ELSE IF Cardinality(paid) = 1
                       THEN amount(CHOOSE a \in paid : TRUE)
                       ELSE amount("A") + amount("B")]

\* executionResult tells how the run ended
ResultTells(executionResult, outcome) ==
  /\ executionResult.kind = "result"
  /\ IF outcome.kind = "returned"
     THEN /\ executionResult.success
          /\ executionResult.data.summary = SummaryOf(outcome)
     ELSE /\ ~executionResult.success
          /\ executionResult.message = outcome.message

ExecuteStep ==
  /\ StartsRun => (PageReady /\ ~page.isExecuting /\ page.pc = "idle")
  /\ (page.isExecuting /\ page'.calls # page.calls) => ~StartsRun
  /\ EndsRun => (~page'.isExecuting
                 /\ ResultTells(page'.executionResult, page'.outcome))

====
